---- MODULE Spec2Model ----
(***************************************************************************)
(* rtimer (src/src/main.rs): the Pomodoro phase engine, the settings       *)
(* editor, the notes manager, the view navigator, the persistence rules    *)
(* and the pure helpers (duration parser, CSV export, daily reset).        *)
(*                                                                         *)
(* Representation.                                                         *)
(*   - A std::time::Duration is a natural number of milliseconds.          *)
(*   - An f64 number of minutes is a natural number of 1/10000 minute      *)
(*     (6 ms); an f64 number of hours is a number of milli-hours.          *)
(*     Duration::from_secs_f64(mins * 60.0) is therefore u * 6 and         *)
(*     as_secs_f64() / 60.0 is ms \div 6.                                  *)
(*   - A String is a sequence of one-character strings.                    *)
(*   - A calendar date is a day number; day 0 is a Monday.                 *)
(*   - Timestamps of records and notes are the abstract instant Now for    *)
(*     everything created in the run; loaded records carry older ones.     *)
(*   - Rendering (terminal.draw, animation_frame, theme colours) is left   *)
(*     out: no handler reads it.                                           *)
(***************************************************************************)
EXTENDS Integers, Sequences, FiniteSets, TLC

VARIABLES
    app,     \* the AppState (main.rs 194-238), a record
    disk,    \* the three persisted documents: config, stats, timer_state
    io,      \* the external effects of the last step, in order
    pc,      \* "running" | "exited" | "panicked"
    today,   \* the local calendar day (chrono::Local::now())
    obs,     \* history: the Work phases left since startup, the last commit
    fn       \* harness of the pure functions (parser, CSV, daily reset)

vars == <<app, disk, io, pc, today, obs, fn>>

(***************************************************************************)
(* Program constants                                                       *)
(***************************************************************************)
TICK_MS == 50
MAX_HISTORY == 100
COMPLETED_BELOW_SECS == 5
AUTO_SAVE_SECS == 5
CSV_HISTORY_ROWS == 50
WEEK_LEN == 7

Phases == {"Work", "ShortBreak", "LongBreak"}
Views == {"Timer", "Help", "StatsSummary", "StatsDetailed", "StatsHistory",
          "Settings", "Notes"}
SettingsFields == {"WorkDuration", "RestDuration", "LongBreakDuration",
                   "SessionsBeforeLongBreak", "Theme", "SoundEnabled",
                   "AutoStartNext", "ExtendedBreakReminder"}
NotesModes == {"Viewing", "Adding", "Editing", "ConfirmingDelete"}
Themes == <<"default", "nord", "dracula", "gruvbox", "solarized">>

\* Option<usize>
None == [some |-> FALSE, idx |-> 0]
Some(i) == [some |-> TRUE, idx |-> i]
\* Option<T> of an argument or a loaded document
NoArg == [some |-> FALSE, val |-> 0]
Arg(v) == [some |-> TRUE, val |-> v]

\* a persisted file: missing, unparsable, or a document
Absent == [kind |-> "absent"]
Corrupt == [kind |-> "corrupt"]
Doc(v) == [kind |-> "doc", val |-> v]
IsDoc(d) == d.kind = "doc"

(***************************************************************************)
(* Strings                                                                 *)
(***************************************************************************)
Digits == <<"0", "1", "2", "3", "4", "5", "6", "7", "8", "9">>
IsDigit(c) == \E i \in 1..10 : Digits[i] = c
DigitVal(c) == (CHOOSE i \in 1..10 : Digits[i] = c) - 1
IsWhitespace(c) == c \in {" ", "\t", "\n"}

RECURSIVE Pow10(_)
Pow10(k) == IF k = 0 THEN 1 ELSE 10 * Pow10(k - 1)

RECURSIVE TrimStart(_)
TrimStart(s) ==
    IF s # <<>> /\ IsWhitespace(Head(s)) THEN TrimStart(Tail(s)) ELSE s

RECURSIVE TrimEnd(_)
TrimEnd(s) ==
    IF s # <<>> /\ IsWhitespace(s[Len(s)])
    THEN TrimEnd(SubSeq(s, 1, Len(s) - 1)) ELSE s

\* str::trim
Trim(s) == TrimEnd(TrimStart(s))

\* String::pop / String::push
Pop(s) == IF s = <<>> THEN s ELSE SubSeq(s, 1, Len(s) - 1)
Push(s, c) == Append(s, c)

RECURSIVE DigitsValue(_)
DigitsValue(s) ==
    IF s = <<>> THEN 0
    ELSE 10 * DigitsValue(SubSeq(s, 1, Len(s) - 1)) + DigitVal(s[Len(s)])

DotPositions(s) == {i \in 1..Len(s) : s[i] = "."}
WithoutDots(s) == SelectSeq(s, LAMBDA c : c # ".")

\* <f64 as FromStr>::from_str on an optional sign followed by digits with at
\* most one '.', and at least one digit.  The value is neg * num / 10^dec.
\* The exponent, "inf" and "nan" forms of the grammar are not modelled: a
\* string holding any other character is an error here.
ParseF64(s) ==
    LET signed == s # <<>> /\ Head(s) \in {"+", "-"}
        body == IF signed THEN Tail(s) ELSE s
        dots == DotPositions(body)
        digs == WithoutDots(body)
        wellformed == /\ digs # <<>>
                      /\ \A i \in 1..Len(digs) : IsDigit(digs[i])
                      /\ Cardinality(dots) <= 1
    IN  IF wellformed
        THEN [ok |-> TRUE,
              neg |-> signed /\ Head(s) = "-",
              num |-> DigitsValue(digs),
              dec |-> IF dots = {} THEN 0
                      ELSE Len(body) - (CHOOSE i \in dots : TRUE)]
        ELSE [ok |-> FALSE, neg |-> FALSE, num |-> 0, dec |-> 0]

\* <u32 as FromStr>::from_str: an optional '+', then digits.  Overflow of
\* u32 needs ten digits; the inputs of the model are shorter.
ParseU32(s) ==
    LET body == IF s # <<>> /\ Head(s) = "+" THEN Tail(s) ELSE s
        wellformed == /\ body # <<>>
                      /\ \A i \in 1..Len(body) : IsDigit(body[i])
    IN  IF wellformed THEN [ok |-> TRUE, val |-> DigitsValue(body)]
        ELSE [ok |-> FALSE, val |-> 0]

\* f64 comparisons of a parsed value v against whole-number bounds
F64Positive(v) == ~v.neg /\ v.num > 0
F64AtMost(v, n) == v.neg \/ v.num <= n * Pow10(v.dec)
\* v >= n/10 (used for the 0.5 hour bound)
F64AtLeastTenths(v, n) == ~v.neg /\ v.num * 10 >= n * Pow10(v.dec)
\* the value in thousandths, truncated
F64Milli(v) == (v.num * 1000) \div Pow10(v.dec)
\* Duration::from_secs_f64(v * 60.0) in milliseconds
DurationFromF64Minutes(v) == (v.num * 60000) \div Pow10(v.dec)

RECURSIVE NatToString(_)
NatToString(n) ==
    IF n < 10 THEN <<Digits[n + 1]>>
    ELSE Append(NatToString(n \div 10), Digits[(n % 10) + 1])

(***************************************************************************)
(* Data model                                                              *)
(***************************************************************************)
\* the instant chrono::Local::now() of the run, as a timestamp
Now == 0

\* impl Default for Config (1/10000 minute, milli-hours)
DefaultConfig ==
    [work_duration |-> 250000, rest_duration |-> 50000,
     long_break_duration |-> 150000, sessions_before_long_break |-> 4,
     sound_enabled |-> TRUE, theme |-> "default", auto_start_next |-> TRUE,
     extended_break_reminder_hours |-> 2000]

\* impl Default for Statistics
DefaultStatistics(day) ==
    [total_sessions |-> 0, total_work_time |-> 0, total_break_time |-> 0,
     sessions_today |-> 0, last_session_date |-> day,
     session_history |-> <<>>, weekly_sessions |-> [i \in 1..WEEK_LEN |-> 0],
     notes |-> <<>>]

\* Duration::from_secs_f64(mins * 60.0), Duration::as_secs_f64() / 60.0,
\* Duration::as_secs, Duration::from_secs
DurationFromMinutes(u) == u * 6
MinutesOfDuration(ms) == ms \div 6
AsSecs(ms) == ms \div 1000
DurationFromSecs(secs) == secs * 1000
SaturatingSub(a, b) == IF a >= b THEN a - b ELSE 0

\* the world a handler acts on: the AppState and what it can reach outside
World == [app |-> app, disk |-> disk, io |-> <<>>, pc |-> pc, today |-> today]
Emit(w, event) == [w EXCEPT !.io = Append(@, event)]
Panic(w) == [w EXCEPT !.pc = "panicked"]
SetApp(w, a) == [w EXCEPT !.app = a]

\* send_notification: fire and forget
send_notification(w, title) == Emit(w, <<"notify", title>>)

(***************************************************************************)
(* impl AppState: the phase engine                                         *)
(***************************************************************************)
total_duration(a) ==
    CASE a.phase = "Work" -> a.work_duration
      [] a.phase = "ShortBreak" -> a.rest_duration
      [] a.phase = "LongBreak" -> a.long_break_duration

PhaseTypeLabel(p) ==
    CASE p = "Work" -> "Work"
      [] p = "ShortBreak" -> "Short Break"
      [] p = "LongBreak" -> "Long Break"

PhaseStr(p) ==
    CASE p = "Work" -> "work"
      [] p = "ShortBreak" -> "short_break"
      [] p = "LongBreak" -> "long_break"

mark_stats_dirty(a) == [a EXCEPT !.needs_stats_save = TRUE]

\* mutant: the newest record is dropped instead of the oldest
KeepLastSessions_DropNewest(h) ==
    IF Len(h) > MAX_HISTORY THEN SubSeq(h, 1, MAX_HISTORY) ELSE h

\* Vec::remove(0) once the pushed history is longer than MAX_HISTORY
KeepLastSessions(h) == IF Len(h) > MAX_HISTORY THEN Tail(h) ELSE h

\* mutant: completed only when no whole second is left
record_session_completion_AtZero(a) ==
    LET rec == [timestamp |-> Now,
                phase_type |-> PhaseTypeLabel(a.phase),
                duration |-> AsSecs(total_duration(a)) \div 60,
                completed |-> AsSecs(a.time_remaining) = 0]
    IN  [a EXCEPT !.stats.session_history =
            IF Len(Append(@, rec)) > MAX_HISTORY THEN Tail(Append(@, rec))
            ELSE Append(@, rec)]

record_session_completion(a) ==
    LET rec == [timestamp |-> Now,
                phase_type |-> PhaseTypeLabel(a.phase),
                duration |-> AsSecs(total_duration(a)) \div 60,
                completed |-> AsSecs(a.time_remaining) < COMPLETED_BELOW_SECS]
    IN  [a EXCEPT !.stats.session_history = KeepLastSessions(Append(@, rec))]

\* mutant: the bounds test is the wrong way round
update_weekly_stats_GuardInverted(a, day) ==
    LET weekday == day % 7
    IN  IF weekday >= Len(a.stats.weekly_sessions)
        THEN [a EXCEPT !.stats.weekly_sessions[weekday + 1] = @ + 1]
        ELSE a

update_weekly_stats(a, day) ==
    LET weekday == day % 7
    IN  IF weekday < Len(a.stats.weekly_sessions)
        THEN [a EXCEPT !.stats.weekly_sessions[weekday + 1] = @ + 1]
        ELSE a

\* the rule choosing the break after a Work phase (session_count already
\* advanced); sessions_before_long_break # 0
LongBreakDue(session_count, sessions_before_long_break) ==
    session_count % sessions_before_long_break = 0

\* mutant: a short break gets the length of a Work phase
next_phase_WorkLength(w) ==
    LET a0 == record_session_completion(w.app)
    IN  IF a0.phase = "Work"
        THEN LET a1 == update_weekly_stats(
                         [a0 EXCEPT
                            !.stats.total_work_time =
                                @ + AsSecs(a0.work_duration) \div 60,
                            !.stats.total_sessions = @ + 1,
                            !.stats.sessions_today = @ + 1], w.today)
                 a2 == [a1 EXCEPT
                          !.session_count = @ + 1,
                          !.total_work_time_since_break = @ + a1.work_duration]
             IN  IF a2.sessions_before_long_break = 0
                 THEN Panic(w)       \* remainder with a divisor of zero
                 ELSE IF LongBreakDue(a2.session_count,
                                      a2.sessions_before_long_break)
                 THEN send_notification(
                        SetApp(w, mark_stats_dirty(
                          [a2 EXCEPT !.phase = "LongBreak",
                                     !.time_remaining = a2.long_break_duration,
                                     !.total_work_time_since_break = 0,
                                     !.paused = ~a2.auto_start_next])),
                        "Long Break Time!")
                 ELSE send_notification(
                        SetApp(w, mark_stats_dirty(
                          [a2 EXCEPT !.phase = "ShortBreak",
                                     !.time_remaining = a2.work_duration,
                                     !.paused = ~a2.auto_start_next])),
                        "Break Time!")
        ELSE send_notification(
               SetApp(w, mark_stats_dirty(
                 [a0 EXCEPT !.stats.total_break_time =
                                @ + AsSecs(total_duration(a0)) \div 60,
                            !.phase = "Work",
                            !.time_remaining = a0.work_duration,
                            !.paused = ~a0.auto_start_next])),
               "Back to Work!")

\* mutant: leaving a break keeps the pause flag
next_phase_KeepPause(w) ==
    LET a0 == record_session_completion(w.app)
    IN  IF a0.phase = "Work"
        THEN LET a1 == update_weekly_stats(
                         [a0 EXCEPT
                            !.stats.total_work_time =
                                @ + AsSecs(a0.work_duration) \div 60,
                            !.stats.total_sessions = @ + 1,
                            !.stats.sessions_today = @ + 1], w.today)
                 a2 == [a1 EXCEPT
                          !.session_count = @ + 1,
                          !.total_work_time_since_break = @ + a1.work_duration]
             IN  IF a2.sessions_before_long_break = 0
                 THEN Panic(w)       \* remainder with a divisor of zero
                 ELSE IF LongBreakDue(a2.session_count,
                                      a2.sessions_before_long_break)
                 THEN send_notification(
                        SetApp(w, mark_stats_dirty(
                          [a2 EXCEPT !.phase = "LongBreak",
                                     !.time_remaining = a2.long_break_duration,
                                     !.total_work_time_since_break = 0,
                                     !.paused = ~a2.auto_start_next])),
                        "Long Break Time!")
                 ELSE send_notification(
                        SetApp(w, mark_stats_dirty(
                          [a2 EXCEPT !.phase = "ShortBreak",
                                     !.time_remaining = a2.rest_duration,
                                     !.paused = ~a2.auto_start_next])),
                        "Break Time!")
        ELSE send_notification(
               SetApp(w, mark_stats_dirty(
                 [a0 EXCEPT !.stats.total_break_time =
                                @ + AsSecs(total_duration(a0)) \div 60,
                            !.phase = "Work",
                            !.time_remaining = a0.work_duration])),
               "Back to Work!")

\* mutant: a long break leaves the accumulator as it is
next_phase_NoAccReset(w) ==
    LET a0 == record_session_completion(w.app)
    IN  IF a0.phase = "Work"
        THEN LET a1 == update_weekly_stats(
                         [a0 EXCEPT
                            !.stats.total_work_time =
                                @ + AsSecs(a0.work_duration) \div 60,
                            !.stats.total_sessions = @ + 1,
                            !.stats.sessions_today = @ + 1], w.today)
                 a2 == [a1 EXCEPT
                          !.session_count = @ + 1,
                          !.total_work_time_since_break = @ + a1.work_duration]
             IN  IF a2.sessions_before_long_break = 0
                 THEN Panic(w)       \* remainder with a divisor of zero
                 ELSE IF LongBreakDue(a2.session_count,
                                      a2.sessions_before_long_break)
                 THEN send_notification(
                        SetApp(w, mark_stats_dirty(
                          [a2 EXCEPT !.phase = "LongBreak",
                                     !.time_remaining = a2.long_break_duration,
                                     !.paused = ~a2.auto_start_next])),
                        "Long Break Time!")
                 ELSE send_notification(
                        SetApp(w, mark_stats_dirty(
                          [a2 EXCEPT !.phase = "ShortBreak",
                                     !.time_remaining = a2.rest_duration,
                                     !.paused = ~a2.auto_start_next])),
                        "Break Time!")
        ELSE send_notification(
               SetApp(w, mark_stats_dirty(
                 [a0 EXCEPT !.stats.total_break_time =
                                @ + AsSecs(total_duration(a0)) \div 60,
                            !.phase = "Work",
                            !.time_remaining = a0.work_duration,
                            !.paused = ~a0.auto_start_next])),
               "Back to Work!")

next_phase_CountsBreaks(w) ==
    LET a0 == record_session_completion(w.app)
    IN  IF a0.phase = "Work"
        THEN LET a1 == update_weekly_stats(
                         [a0 EXCEPT
                            !.stats.total_work_time =
                                @ + AsSecs(a0.work_duration) \div 60,
                            !.stats.total_sessions = @ + 1,
                            !.stats.sessions_today = @ + 1], w.today)
                 a2 == [a1 EXCEPT
                          !.session_count = @ + 1,
                          !.total_work_time_since_break = @ + a1.work_duration]
             IN  IF a2.sessions_before_long_break = 0
                 THEN Panic(w)       \* remainder with a divisor of zero
                 ELSE IF LongBreakDue(a2.session_count,
                                      a2.sessions_before_long_break)
                 THEN send_notification(
                        SetApp(w, mark_stats_dirty(
                          [a2 EXCEPT !.phase = "LongBreak",
                                     !.time_remaining = a2.long_break_duration,
                                     !.total_work_time_since_break = 0,
                                     !.paused = ~a2.auto_start_next])),
                        "Long Break Time!")
                 ELSE send_notification(
                        SetApp(w, mark_stats_dirty(
                          [a2 EXCEPT !.phase = "ShortBreak",
                                     !.time_remaining = a2.rest_duration,
                                     !.paused = ~a2.auto_start_next])),
                        "Break Time!")
        ELSE send_notification(
               SetApp(w, mark_stats_dirty(
                 [a0 EXCEPT !.stats.total_break_time =
                                @ + AsSecs(total_duration(a0)) \div 60,
                            !.session_count = @ + 1,
                            !.phase = "Work",
                            !.time_remaining = a0.work_duration,
                            !.paused = ~a0.auto_start_next])),
               "Back to Work!")

next_phase(w) ==
    LET a0 == record_session_completion(w.app)
    IN  IF a0.phase = "Work"
        THEN LET a1 == update_weekly_stats(
                         [a0 EXCEPT
                            !.stats.total_work_time =
                                @ + AsSecs(a0.work_duration) \div 60,
                            !.stats.total_sessions = @ + 1,
                            !.stats.sessions_today = @ + 1], w.today)
                 a2 == [a1 EXCEPT
                          !.session_count = @ + 1,
                          !.total_work_time_since_break = @ + a1.work_duration]
             IN  IF a2.sessions_before_long_break = 0
                 THEN Panic(w)       \* remainder with a divisor of zero
                 ELSE IF LongBreakDue(a2.session_count,
                                      a2.sessions_before_long_break)
                 THEN send_notification(
                        SetApp(w, mark_stats_dirty(
                          [a2 EXCEPT !.phase = "LongBreak",
                                     !.time_remaining = a2.long_break_duration,
                                     !.total_work_time_since_break = 0,
                                     !.paused = ~a2.auto_start_next])),
                        "Long Break Time!")
                 ELSE send_notification(
                        SetApp(w, mark_stats_dirty(
                          [a2 EXCEPT !.phase = "ShortBreak",
                                     !.time_remaining = a2.rest_duration,
                                     !.paused = ~a2.auto_start_next])),
                        "Break Time!")
        ELSE send_notification(
               SetApp(w, mark_stats_dirty(
                 [a0 EXCEPT !.stats.total_break_time =
                                @ + AsSecs(total_duration(a0)) \div 60,
                            !.phase = "Work",
                            !.time_remaining = a0.work_duration,
                            !.paused = ~a0.auto_start_next])),
               "Back to Work!")

\* `due`: at least 60 s of real time have passed since the last check
\* (last_extended_break_check.elapsed() >= 60 s), an input of the step.
check_extended_break_reminder(w, due) ==
    IF ~due THEN w
    ELSE IF w.app.total_work_time_since_break
              >= w.app.extended_break_reminder_hours * 3600
    THEN send_notification(
           SetApp(w, [w.app EXCEPT !.total_work_time_since_break = 0]),
           "Extended Break Recommended")
    ELSE w

\* mutant: the pause flag is left as it is
reset_timer_KeepPause(a) == [a EXCEPT !.time_remaining = total_duration(a)]

toggle_pause(a) == [a EXCEPT !.paused = ~a.paused]
toggle_minimize(a) == [a EXCEPT !.minimized = ~a.minimized]
reset_timer(a) == [a EXCEPT !.time_remaining = total_duration(a),
                            !.paused = FALSE]

\* mutant: a plain subtraction
TickDown_NoSaturation(t) == t - TICK_MS

\* one tick: Duration::saturating_sub of the tick interval
TickDown(t) == SaturatingSub(t, TICK_MS)

update_timer_UnlessMinimized(w, due) ==
    IF ~w.app.paused /\ w.app.time_remaining > 0 /\ ~w.app.minimized
    THEN LET w1 == SetApp(w, [w.app EXCEPT
                                !.time_remaining = TickDown(@)])
             w2 == IF w1.app.phase = "Work" /\ ~w1.app.paused
                   THEN check_extended_break_reminder(w1, due) ELSE w1
         IN  IF AsSecs(w2.app.time_remaining) = 0 THEN next_phase(w2) ELSE w2
    ELSE w

update_timer(w, due) ==
    IF ~w.app.paused /\ w.app.time_remaining > 0
    THEN LET w1 == SetApp(w, [w.app EXCEPT
                                !.time_remaining = TickDown(@)])
             w2 == IF w1.app.phase = "Work" /\ ~w1.app.paused
                   THEN check_extended_break_reminder(w1, due) ELSE w1
         IN  IF AsSecs(w2.app.time_remaining) = 0 THEN next_phase(w2) ELSE w2
    ELSE w

(***************************************************************************)
(* Persistence                                                             *)
(***************************************************************************)
\* the Config built by AppState::save_config from the live values
ConfigOf(a) ==
    [work_duration |-> MinutesOfDuration(a.work_duration),
     rest_duration |-> MinutesOfDuration(a.rest_duration),
     long_break_duration |-> MinutesOfDuration(a.long_break_duration),
     sessions_before_long_break |-> a.sessions_before_long_break,
     sound_enabled |-> a.sound_enabled,
     theme |-> a.theme_name,
     auto_start_next |-> a.auto_start_next,
     extended_break_reminder_hours |-> a.extended_break_reminder_hours]

save_stats_now_ClearsOnFailure(w, ok) ==
    IF ok THEN Emit([w EXCEPT !.disk.stats = Doc(w.app.stats),
                              !.app.needs_stats_save = FALSE],
                    <<"write", "stats">>)
    ELSE Emit([w EXCEPT !.app.needs_stats_save = FALSE],
              <<"write_failed", "stats">>)

\* `ok`: whether fs::write succeeds; the result is dropped (let _ = ...)
save_config(w, ok) ==
    IF ok THEN Emit([w EXCEPT !.disk.config = Doc(ConfigOf(w.app))],
                    <<"write", "config">>)
    ELSE Emit(w, <<"write_failed", "config">>)

save_stats_now(w, ok) ==
    IF ok THEN Emit([w EXCEPT !.disk.stats = Doc(w.app.stats),
                              !.app.needs_stats_save = FALSE],
                    <<"write", "stats">>)
    ELSE Emit(w, <<"write_failed", "stats">>)

TimerStateOf(a) ==
    [time_remaining_secs |-> AsSecs(a.time_remaining),
     phase |-> PhaseStr(a.phase),
     session_count |-> a.session_count,
     paused |-> a.paused]

save_timer_state(w, ok) ==
    IF ok THEN Emit([w EXCEPT !.disk.timer_state = Doc(TimerStateOf(w.app))],
                    <<"write", "timer_state">>)
    ELSE Emit(w, <<"write_failed", "timer_state">>)

\* mutant: the statistics are written only when the dirty flag is set
save_on_quit_IfDirty(w, ok_stats, ok_timer) ==
    save_timer_state(IF w.app.needs_stats_save
                     THEN save_stats_now(w, ok_stats) ELSE w, ok_timer)

save_on_quit(w, ok_stats, ok_timer) ==
    save_timer_state(save_stats_now(w, ok_stats), ok_timer)

\* mutant: the time since the last auto-save is not tested
auto_save_if_needed_NoDebounce(w, elapsed, ok) ==
    IF w.app.needs_stats_save THEN save_stats_now(w, ok) ELSE w

\* `elapsed`: last_auto_save.elapsed() >= 5 s, an input of the step
auto_save_if_needed(w, elapsed, ok) ==
    IF w.app.needs_stats_save /\ elapsed THEN save_stats_now(w, ok) ELSE w

(***************************************************************************)
(* impl AppState: settings                                                 *)
(***************************************************************************)
settings_next_field(a) ==
    [a EXCEPT !.settings_selected_field =
        CASE @ = "WorkDuration" -> "RestDuration"
          [] @ = "RestDuration" -> "LongBreakDuration"
          [] @ = "LongBreakDuration" -> "SessionsBeforeLongBreak"
          [] @ = "SessionsBeforeLongBreak" -> "Theme"
          [] @ = "Theme" -> "SoundEnabled"
          [] @ = "SoundEnabled" -> "AutoStartNext"
          [] @ = "AutoStartNext" -> "ExtendedBreakReminder"
          [] @ = "ExtendedBreakReminder" -> "WorkDuration"]

settings_prev_field(a) ==
    [a EXCEPT !.settings_selected_field =
        CASE @ = "WorkDuration" -> "ExtendedBreakReminder"
          [] @ = "RestDuration" -> "WorkDuration"
          [] @ = "LongBreakDuration" -> "RestDuration"
          [] @ = "SessionsBeforeLongBreak" -> "LongBreakDuration"
          [] @ = "Theme" -> "SessionsBeforeLongBreak"
          [] @ = "SoundEnabled" -> "Theme"
          [] @ = "AutoStartNext" -> "SoundEnabled"
          [] @ = "ExtendedBreakReminder" -> "AutoStartNext"]

\* two digits of n < 100
TwoDigits(n) == <<Digits[(n \div 10) + 1], Digits[(n % 10) + 1]>>

\* the edit buffer of a duration: the minutes as an integer when whole,
\* else format!("{:.2}") (nearest hundredth of a minute = 600 ms)
FormatMinutes(ms) ==
    IF ms % 60000 = 0 THEN NatToString(ms \div 60000)
    ELSE LET h == (ms + 300) \div 600
         IN  NatToString(h \div 100) \o <<".">> \o TwoDigits(h % 100)

\* the edit buffer of the reminder: whole hours, else format!("{:.1}")
FormatHours(mh) ==
    IF mh % 1000 = 0 THEN NatToString(mh \div 1000)
    ELSE LET t == (mh + 50) \div 100
         IN  NatToString(t \div 10) \o <<".", Digits[(t % 10) + 1]>>

settings_start_editing_AnyField(a) ==
    LET f == a.settings_selected_field
    IN  [a EXCEPT
           !.settings_editing = TRUE,
           !.settings_input =
               CASE f = "WorkDuration" -> FormatMinutes(a.work_duration)
                 [] f = "RestDuration" -> FormatMinutes(a.rest_duration)
                 [] f = "LongBreakDuration" ->
                       FormatMinutes(a.long_break_duration)
                 [] f = "SessionsBeforeLongBreak" ->
                       NatToString(a.sessions_before_long_break)
                 [] f = "ExtendedBreakReminder" ->
                       FormatHours(a.extended_break_reminder_hours)
                 [] OTHER -> a.settings_input]

settings_start_editing(a) ==
    LET f == a.settings_selected_field
    IN  IF f \in {"Theme", "SoundEnabled", "AutoStartNext"} THEN a
        ELSE [a EXCEPT
                !.settings_editing = TRUE,
                !.settings_input =
                    CASE f = "WorkDuration" -> FormatMinutes(a.work_duration)
                      [] f = "RestDuration" -> FormatMinutes(a.rest_duration)
                      [] f = "LongBreakDuration" ->
                            FormatMinutes(a.long_break_duration)
                      [] f = "SessionsBeforeLongBreak" ->
                            NatToString(a.sessions_before_long_break)
                      [] f = "ExtendedBreakReminder" ->
                            FormatHours(a.extended_break_reminder_hours)]

settings_cancel_editing(a) ==
    [a EXCEPT !.settings_editing = FALSE, !.settings_input = <<>>]

\* the upper end of a duration field's range, in minutes
MaxMinutes(f) ==
    CASE f = "WorkDuration" -> 240
      [] f = "RestDuration" -> 60
      [] f = "LongBreakDuration" -> 120

\* mutant: the upper end of the range is not tested
DurationAccepted_NoUpperBound(f, v) == v.ok /\ F64Positive(v)

\* the range tests of settings_apply_change
DurationAccepted(f, v) == v.ok /\ F64Positive(v) /\ F64AtMost(v, MaxMinutes(f))
SessionsAccepted(u) == u.ok /\ u.val > 0 /\ u.val <= 10
ReminderAccepted(v) == v.ok /\ F64AtLeastTenths(v, 5) /\ F64AtMost(v, 8)

\* whether the buffer would be applied to field f
InputAccepted(f, input) ==
    CASE f \in {"WorkDuration", "RestDuration", "LongBreakDuration"} ->
            DurationAccepted(f, ParseF64(input))
      [] f = "SessionsBeforeLongBreak" -> SessionsAccepted(ParseU32(input))
      [] f = "ExtendedBreakReminder" -> ReminderAccepted(ParseF64(input))
      [] OTHER -> FALSE

settings_apply_change(w, ok) ==
    LET a == w.app
        f == a.settings_selected_field
        v == ParseF64(a.settings_input)
        u == ParseU32(a.settings_input)
        d == DurationFromF64Minutes(v)
        a1 == IF ~InputAccepted(f, a.settings_input) THEN a
              ELSE CASE f = "WorkDuration" -> [a EXCEPT !.work_duration = d]
                     [] f = "RestDuration" -> [a EXCEPT !.rest_duration = d]
                     [] f = "LongBreakDuration" ->
                            [a EXCEPT !.long_break_duration = d]
                     [] f = "SessionsBeforeLongBreak" ->
                            [a EXCEPT !.sessions_before_long_break = u.val]
                     [] f = "ExtendedBreakReminder" ->
                            [a EXCEPT !.extended_break_reminder_hours =
                                          F64Milli(v)]
        w1 == IF InputAccepted(f, a.settings_input)
              THEN save_config(SetApp(w, a1), ok) ELSE w
    IN  SetApp(w1, settings_cancel_editing(w1.app))

settings_toggle_boolean(w, ok) ==
    CASE w.app.settings_selected_field = "SoundEnabled" ->
            save_config(SetApp(w, [w.app EXCEPT !.sound_enabled = ~@]), ok)
      [] w.app.settings_selected_field = "AutoStartNext" ->
            save_config(SetApp(w, [w.app EXCEPT !.auto_start_next = ~@]), ok)
      [] OTHER -> w

ThemeIndex(name) ==
    IF \E i \in 1..Len(Themes) : Themes[i] = name
    THEN (CHOOSE i \in 1..Len(Themes) : Themes[i] = name) - 1
    ELSE 0

\* mutant: the Config is written before the theme is changed
settings_cycle_theme_SaveFirst(w, forward, ok) ==
    IF w.app.settings_selected_field = "Theme"
    THEN LET cur == IF \E i \in 1..Len(Themes) : Themes[i] = w.app.theme_name
                    THEN (CHOOSE i \in 1..Len(Themes) :
                             Themes[i] = w.app.theme_name) - 1
                    ELSE 0
             new == IF forward THEN (cur + 1) % Len(Themes)
                    ELSE IF cur = 0 THEN Len(Themes) - 1 ELSE cur - 1
             saved == save_config(w, ok)
         IN  SetApp(saved, [saved.app EXCEPT !.theme_name = Themes[new + 1]])
    ELSE w

settings_cycle_theme(w, forward, ok) ==
    IF w.app.settings_selected_field = "Theme"
    THEN LET cur == ThemeIndex(w.app.theme_name)
             new == IF forward THEN (cur + 1) % Len(Themes)
                    ELSE IF cur = 0 THEN Len(Themes) - 1 ELSE cur - 1
         IN  save_config(SetApp(w, [w.app EXCEPT
                                      !.theme_name = Themes[new + 1]]), ok)
    ELSE w

(***************************************************************************)
(* impl AppState: notes                                                    *)
(***************************************************************************)
open_notes(a) ==
    [a EXCEPT !.current_view = "Notes",
              !.notes_mode = "Viewing",
              !.selected_note_index =
                  IF a.stats.notes # <<>> THEN Some(Len(a.stats.notes) - 1)
                  ELSE None]

open_settings(a) == [a EXCEPT !.current_view = "Settings"]

start_note(a) == [a EXCEPT !.notes_mode = "Adding", !.notes_input = <<>>]

\* mutant: the buffer is tested without trimming
NonBlank_Untrimmed(input) == input # <<>>

\* whether a commit keeps the buffer: !input.trim().is_empty()
NonBlank(input) == Trim(input) # <<>>

save_note(a) ==
    LET note == [timestamp |-> Now,
                 content |-> Trim(a.notes_input),
                 phase |-> PhaseStr(a.phase)]
        a1 == IF NonBlank(a.notes_input)
              THEN [mark_stats_dirty(a) EXCEPT
                      !.stats.notes = Append(@, note),
                      !.selected_note_index = Some(Len(a.stats.notes))]
              ELSE a
    IN  [a1 EXCEPT !.notes_mode = "Viewing", !.notes_input = <<>>]

cancel_note(a) == [a EXCEPT !.notes_mode = "Viewing", !.notes_input = <<>>]

\* indices are 0-based as in the source; sequences are 1-based
start_edit_note(a) ==
    IF a.selected_note_index.some
       /\ a.selected_note_index.idx < Len(a.stats.notes)
    THEN [a EXCEPT
            !.notes_input = a.stats.notes[a.selected_note_index.idx + 1].content,
            !.notes_mode = "Editing"]
    ELSE a

save_edited_note(a) ==
    LET sel == a.selected_note_index
        a1 == IF sel.some /\ sel.idx < Len(a.stats.notes)
                 /\ NonBlank(a.notes_input)
              THEN [mark_stats_dirty(a) EXCEPT
                      !.stats.notes[sel.idx + 1].content = Trim(a.notes_input)]
              ELSE a
    IN  [a1 EXCEPT !.notes_mode = "Viewing", !.notes_input = <<>>]

confirm_delete_note(a) ==
    IF a.selected_note_index.some
    THEN [a EXCEPT !.notes_mode = "ConfirmingDelete"] ELSE a

\* Vec::remove(idx), idx 0-based and in range
RemoveAt(seq, idx) ==
    SubSeq(seq, 1, idx) \o SubSeq(seq, idx + 2, Len(seq))

\* mutant: the selection is not moved back to the new last note
SelectionAfterDelete_NoClamp(sel, rest) == IF rest = <<>> THEN None ELSE sel

\* the selection after the note at idx was removed, `rest` being what is left
SelectionAfterDelete(sel, rest) ==
    IF rest = <<>> THEN None
    ELSE IF sel.idx >= Len(rest) THEN Some(Len(rest) - 1)
    ELSE sel

delete_selected_note(a) ==
    LET sel == a.selected_note_index
        a1 == IF sel.some /\ sel.idx < Len(a.stats.notes)
              THEN LET rest == RemoveAt(a.stats.notes, sel.idx)
                   IN  [mark_stats_dirty(a) EXCEPT
                          !.stats.notes = rest,
                          !.selected_note_index =
                              SelectionAfterDelete(sel, rest)]
              ELSE a
    IN  [a1 EXCEPT !.notes_mode = "Viewing"]

\* mutant: declining also drops the selection
cancel_delete_Deselects(a) ==
    [a EXCEPT !.notes_mode = "Viewing", !.selected_note_index = None]

cancel_delete(a) == [a EXCEPT !.notes_mode = "Viewing"]

Min(x, y) == IF x <= y THEN x ELSE y
Max(x, y) == IF x >= y THEN x ELSE y

select_next_note_NoClamp(a) ==
    IF a.stats.notes # <<>>
    THEN [a EXCEPT !.selected_note_index =
            IF @.some THEN Some(@.idx + 1) ELSE Some(0)]
    ELSE a

select_next_note(a) ==
    IF a.stats.notes # <<>>
    THEN [a EXCEPT !.selected_note_index =
            IF @.some THEN Some(Min(@.idx + 1, Len(a.stats.notes) - 1))
            ELSE Some(0)]
    ELSE a

select_prev_note(a) ==
    IF a.stats.notes # <<>>
    THEN [a EXCEPT !.selected_note_index =
            IF @.some THEN Some(SaturatingSub(@.idx, 1))
            ELSE Some(Len(a.stats.notes) - 1)]
    ELSE a

scroll_notes(a, delta) ==
    LET max_notes == Len(a.stats.notes)
    IN  IF max_notes > 10
        THEN [a EXCEPT !.note_scroll_offset =
                Min(Max(@ + delta, 0), max_notes - 10)]
        ELSE a

(***************************************************************************)
(* CSV export                                                              *)
(***************************************************************************)
RECURSIVE DoubleQuotes(_)
\* str::replace('"', "\"\"")
DoubleQuotes(s) ==
    IF s = <<>> THEN <<>>
    ELSE (IF Head(s) = "\"" THEN <<"\"", "\"">> ELSE <<Head(s)>>)
         \o DoubleQuotes(Tail(s))

Contains(s, c) == \E i \in 1..Len(s) : s[i] = c

\* mutant: the quotes inside the content are not doubled
CsvContent_NoDoubling(content) ==
    IF Contains(content, ",") \/ Contains(content, "\"")
    THEN <<"\"">> \o content \o <<"\"">>
    ELSE content

\* the content field of a note row
CsvContent(content) ==
    IF Contains(content, ",") \/ Contains(content, "\"")
    THEN <<"\"">> \o DoubleQuotes(content) \o <<"\"">>
    ELSE content

Rev(s) == [i \in 1..Len(s) |-> s[Len(s) + 1 - i]]
\* Iterator::take(n)
Take(s, n) == SubSeq(s, 1, Min(n, Len(s)))

\* the sessions written to the history section: iter().rev().take(50)
CsvSessions(history) == Take(Rev(history), CSV_HISTORY_ROWS)

\* the exported file: its summary row, history rows and note rows (a row is the
\* tuple of its comma-separated fields)
CsvDocument(stats) ==
    [summary |-> <<stats.last_session_date, stats.total_sessions,
                   stats.sessions_today, stats.total_work_time,
                   stats.total_break_time>>,
     history |-> [i \in 1..Len(CsvSessions(stats.session_history)) |->
                    LET r == CsvSessions(stats.session_history)[i]
                    IN  <<r.timestamp, r.phase_type, r.duration,
                          IF r.completed THEN "Yes" ELSE "No">>],
     notes |-> [i \in 1..Len(stats.notes) |->
                  LET n == Rev(stats.notes)[i]
                  IN  <<n.timestamp, n.phase, CsvContent(n.content)>>]]

export_stats_csv(w, ok) ==
    IF ok THEN Emit([w EXCEPT !.disk.csv = Doc(CsvDocument(w.app.stats))],
                    <<"write", "csv">>)
    ELSE Emit(w, <<"write_failed", "csv">>)

(***************************************************************************)
(* handle_key_event                                                        *)
(***************************************************************************)
\* a crossterm KeyEvent: its KeyCode, the character of a Char, CONTROL held
Ch(c) == [code |-> "Char", ch |-> c, ctrl |-> FALSE]
Ctrl(c) == [code |-> "Char", ch |-> c, ctrl |-> TRUE]
Key(code) == [code |-> code, ch |-> "", ctrl |-> FALSE]
IsChar(key, cs) == key.code = "Char" /\ key.ch \in cs

\* notes_mode is Adding or Editing (main.rs 818-839)
KeyNotesInput(w, key) ==
    LET a == w.app
    IN  SetApp(w,
          CASE key.code = "Char" -> [a EXCEPT !.notes_input = Push(@, key.ch)]
            [] key.code = "Backspace" -> [a EXCEPT !.notes_input = Pop(@)]
            [] key.code = "Enter" ->
                  IF a.notes_mode = "Editing" THEN save_edited_note(a)
                  ELSE save_note(a)
            [] key.code = "Esc" -> cancel_note(a)
            [] OTHER -> a)

\* mutant: every other key cancels the deletion
KeyConfirmDelete_OtherCancels(w, key) ==
    LET a == w.app
    IN  SetApp(w,
          CASE IsChar(key, {"y", "Y"}) -> delete_selected_note(a)
            [] OTHER -> cancel_delete(a))

\* notes_mode is ConfirmingDelete (main.rs 842-853)
KeyConfirmDelete(w, key) ==
    LET a == w.app
    IN  SetApp(w,
          CASE IsChar(key, {"y", "Y"}) -> delete_selected_note(a)
            [] IsChar(key, {"n", "N"}) \/ key.code = "Esc" -> cancel_delete(a)
            [] OTHER -> a)

\* current_view is Notes (main.rs 856-886)
KeyNotesView(w, key) ==
    LET a == w.app
    IN  SetApp(w,
          CASE key.code = "Esc" \/ IsChar(key, {"q", "t"}) ->
                  [a EXCEPT !.current_view = "Timer", !.notes_mode = "Viewing"]
            [] IsChar(key, {"a", "n"}) -> start_note(a)
            [] IsChar(key, {"e"}) -> start_edit_note(a)
            [] IsChar(key, {"d"}) -> confirm_delete_note(a)
            [] key.code = "Down" \/ IsChar(key, {"j"}) -> select_next_note(a)
            [] key.code = "Up" \/ IsChar(key, {"k"}) -> select_prev_note(a)
            [] key.code = "PageUp" -> scroll_notes(a, -5)
            [] key.code = "PageDown" -> scroll_notes(a, 5)
            [] OTHER -> a)

\* mutant: Esc leaves the settings view as well
KeySettingsEdit_EscLeaves(w, key, ok) ==
    LET a == w.app
    IN  CASE key.code = "Char" ->
                SetApp(w, [a EXCEPT !.settings_input = Push(@, key.ch)])
          [] key.code = "Backspace" ->
                SetApp(w, [a EXCEPT !.settings_input = Pop(@)])
          [] key.code = "Enter" -> settings_apply_change(w, ok)
          [] key.code = "Esc" ->
                SetApp(w, [settings_cancel_editing(a) EXCEPT
                             !.current_view = "Timer"])
          [] OTHER -> w

\* settings_editing (main.rs 889-906)
KeySettingsEdit(w, key, ok) ==
    LET a == w.app
    IN  CASE key.code = "Char" ->
                SetApp(w, [a EXCEPT !.settings_input = Push(@, key.ch)])
          [] key.code = "Backspace" ->
                SetApp(w, [a EXCEPT !.settings_input = Pop(@)])
          [] key.code = "Enter" -> settings_apply_change(w, ok)
          [] key.code = "Esc" -> SetApp(w, settings_cancel_editing(a))
          [] OTHER -> w

\* current_view is Settings (main.rs 909-939)
KeySettingsView(w, key, ok) ==
    LET a == w.app
    IN  CASE key.code = "Esc" \/ IsChar(key, {"q", "c"}) ->
                SetApp(w, [a EXCEPT !.current_view = "Timer"])
          [] key.code = "Down" \/ IsChar(key, {"j"}) ->
                SetApp(w, settings_next_field(a))
          [] key.code = "Up" \/ IsChar(key, {"k"}) ->
                SetApp(w, settings_prev_field(a))
          [] key.code = "Enter" \/ IsChar(key, {"e"}) ->
                SetApp(w, settings_start_editing(a))
          [] IsChar(key, {" "}) -> settings_toggle_boolean(w, ok)
          [] key.code = "Left" \/ IsChar(key, {"h"}) ->
                IF a.settings_selected_field = "Theme"
                THEN settings_cycle_theme(w, FALSE, ok) ELSE w
          [] key.code = "Right" \/ IsChar(key, {"l"}) ->
                IF a.settings_selected_field = "Theme"
                THEN settings_cycle_theme(w, TRUE, ok) ELSE w
          [] OTHER -> w

\* whether the key makes handle_key_event return true (main.rs 942-944)
IsQuitKey(key) ==
    \/ IsChar(key, {"q"})
    \/ key.code = "Esc"
    \/ (IsChar(key, {"c"}) /\ key.ctrl)

\* the keys of the Timer, Help and Stats views, quit keys apart
\* (main.rs 946-999)
KeyNormal(w, key, ok) ==
    LET a == w.app
    IN  IF IsChar(key, {"m", "M"}) THEN SetApp(w, toggle_minimize(a))
        ELSE IF a.minimized THEN w
        ELSE CASE IsChar(key, {" "}) -> SetApp(w, toggle_pause(a))
               [] IsChar(key, {"r"}) -> SetApp(w, reset_timer(a))
               [] IsChar(key, {"n"}) -> next_phase(w)
               [] IsChar(key, {"d"}) -> SetApp(w, open_settings(a))
               [] IsChar(key, {"t"}) -> SetApp(w, open_notes(a))
               [] IsChar(key, {"h", "?"}) ->
                     SetApp(w, [a EXCEPT !.current_view =
                        IF @ = "Help" THEN "Timer" ELSE "Help"])
               [] IsChar(key, {"s"}) ->
                     SetApp(w, [a EXCEPT !.current_view =
                        IF @ = "Timer" THEN "StatsSummary" ELSE "Timer"])
               [] key.code = "Tab" ->
                     SetApp(w, [a EXCEPT !.current_view =
                        CASE @ = "StatsSummary" -> "StatsDetailed"
                          [] @ = "StatsDetailed" -> "StatsHistory"
                          [] @ = "StatsHistory" -> "StatsSummary"
                          [] OTHER -> @])
               [] IsChar(key, {"e"}) ->
                     IF a.current_view \in
                          {"StatsSummary", "StatsDetailed", "StatsHistory"}
                     THEN export_stats_csv(w, ok) ELSE w
               [] OTHER -> w

\* which arm of handle_key_event takes the key
KeyRoute(a) ==
    IF a.notes_mode \in {"Adding", "Editing"} THEN "NotesInput"
    ELSE IF a.notes_mode = "ConfirmingDelete" THEN "ConfirmDelete"
    ELSE IF a.current_view = "Notes" THEN "NotesView"
    ELSE IF a.settings_editing THEN "SettingsEdit"
    ELSE IF a.current_view = "Settings" THEN "SettingsView"
    ELSE "Normal"

\* handle_key_event: the world after the key, and the returned quit flag
handle_key_event(w, key, ok) ==
    LET route == KeyRoute(w.app)
    IN  CASE route = "NotesInput" ->
                [w |-> KeyNotesInput(w, key), quit |-> FALSE]
          [] route = "ConfirmDelete" ->
                [w |-> KeyConfirmDelete(w, key), quit |-> FALSE]
          [] route = "NotesView" ->
                [w |-> KeyNotesView(w, key), quit |-> FALSE]
          [] route = "SettingsEdit" ->
                [w |-> KeySettingsEdit(w, key, ok), quit |-> FALSE]
          [] route = "SettingsView" ->
                [w |-> KeySettingsView(w, key, ok), quit |-> FALSE]
          [] route = "Normal" ->
                IF IsQuitKey(key) THEN [w |-> w, quit |-> TRUE]
                ELSE [w |-> KeyNormal(w, key, ok), quit |-> FALSE]

(***************************************************************************)
(* parse_duration_arg                                                      *)
(***************************************************************************)
\* char::to_lowercase on the letters the parser tests
ToLower(c) ==
    CASE c = "H" -> "h" [] c = "M" -> "m" [] c = "S" -> "s" [] OTHER -> c

\* mutant: seconds are added as minutes
UnitMs_SecondsAsMinutes(ch) ==
    CASE ch = "h" -> 3600000 [] ch = "m" -> 60000 [] ch = "s" -> 60000

\* how many milliseconds one unit of `ch` is worth: the minutes the source
\* adds (hours * 60.0, mins, secs / 60.0), written in 1/60000 minute
UnitMs(ch) == CASE ch = "h" -> 3600000 [] ch = "m" -> 60000 [] ch = "s" -> 1000

\* the loop over the characters: st = [total, current_num, err]
RECURSIVE ParseDurationLoop(_, _)
ParseDurationLoop(s, st) ==
    IF s = <<>> \/ st.err THEN st
    ELSE LET ch == Head(s)
             v == ParseF64(st.current_num)
         IN  ParseDurationLoop(Tail(s),
               IF IsDigit(ch) \/ ch = "."
               THEN [st EXCEPT !.current_num = Push(@, ch)]
               ELSE IF ch \in {"h", "m", "s"}
               THEN IF v.ok
                    THEN [st EXCEPT
                            !.total = @ + (v.num * UnitMs(ch)) \div Pow10(v.dec),
                            !.current_num = <<>>]
                    ELSE [st EXCEPT !.err = TRUE]
               ELSE st)

\* Result<f64, String>: ok and the minutes in 1/60000 minute
parse_duration_arg(s) ==
    LET lowered == [i \in 1..Len(Trim(s)) |-> ToLower(Trim(s)[i])]
        st == ParseDurationLoop(lowered,
                [total |-> 0, current_num |-> <<>>, err |-> FALSE])
    IN  IF ~st.err /\ st.total > 0 THEN [ok |-> TRUE, minutes |-> st.total]
        ELSE [ok |-> FALSE, minutes |-> 0]

(***************************************************************************)
(* Startup: main, load_*, reset_daily_stats_if_needed, create_app_state_*  *)
(***************************************************************************)
\* load_config: the document, or the default when it is absent or unparsable
load_config(doc) == IF IsDoc(doc) THEN doc.val ELSE DefaultConfig
\* an absent document is created with the defaults (write result dropped)
ConfigDocAfterLoad(doc, ok) ==
    IF doc = Absent /\ ok THEN Doc(DefaultConfig) ELSE doc

load_stats(doc, day) == IF IsDoc(doc) THEN doc.val ELSE DefaultStatistics(day)

load_timer_state(doc) == IF IsDoc(doc) THEN Arg(doc.val) ELSE NoArg

\* main.rs 716-733: the command line overrides the loaded Config
ApplyArgs(config, args) ==
    [config EXCEPT
       !.work_duration = IF args.work.some THEN args.work.val ELSE @,
       !.rest_duration = IF args.rest.some THEN args.rest.val ELSE @,
       !.long_break_duration =
            IF args.long_break.some THEN args.long_break.val ELSE @,
       !.sessions_before_long_break =
            IF args.sessions.some THEN args.sessions.val ELSE @,
       !.theme = IF args.theme.some THEN args.theme.val ELSE @,
       !.sound_enabled = IF args.no_sound THEN FALSE ELSE @]

\* slice::rotate_left(1) on a non-empty sequence
RotateLeft(s) == Tail(s) \o <<Head(s)>>

\* mutant: the slot of the new day keeps the rotated count
NewDayWeekly_NoZero(weekly) == RotateLeft(weekly)

\* the weekly array of a new day: rotated, then weekly_sessions[6] = 0
NewDayWeekly(weekly) == [RotateLeft(weekly) EXCEPT ![7] = 0]

\* weekly_sessions[6] = 0 on fewer than 7 elements is an index out of bounds
ResetPanics(stats, day) ==
    stats.last_session_date # day /\ Len(stats.weekly_sessions) < WEEK_LEN

\* the statistics after the call; as they were when the call panics
reset_daily_stats_if_needed(stats, day) ==
    IF stats.last_session_date # day /\ ~ResetPanics(stats, day)
    THEN [stats EXCEPT !.sessions_today = 0,
                       !.last_session_date = day,
                       !.weekly_sessions = NewDayWeekly(@)]
    ELSE stats

LastNoteSelected(stats) ==
    IF stats.notes # <<>> THEN Some(Len(stats.notes) - 1) ELSE None

create_app_state_from_args(config, stats) ==
    [time_remaining |-> DurationFromMinutes(config.work_duration),
     paused |-> FALSE,
     session_count |-> 1,
     phase |-> "Work",
     work_duration |-> DurationFromMinutes(config.work_duration),
     rest_duration |-> DurationFromMinutes(config.rest_duration),
     long_break_duration |-> DurationFromMinutes(config.long_break_duration),
     sessions_before_long_break |-> config.sessions_before_long_break,
     stats |-> stats,
     current_view |-> "Timer",
     sound_enabled |-> config.sound_enabled,
     minimized |-> FALSE,
     settings_selected_field |-> "WorkDuration",
     settings_editing |-> FALSE,
     settings_input |-> <<>>,
     theme_name |-> config.theme,
     notes_mode |-> "Viewing",
     notes_input |-> <<>>,
     note_scroll_offset |-> 0,
     selected_note_index |-> LastNoteSelected(stats),
     needs_stats_save |-> FALSE,
     auto_start_next |-> config.auto_start_next,
     extended_break_reminder_hours |-> config.extended_break_reminder_hours,
     total_work_time_since_break |-> 0]

PhaseOfStr(str) ==
    CASE str = "short_break" -> "ShortBreak"
      [] str = "long_break" -> "LongBreak"
      [] OTHER -> "Work"

\* mutant: a resumed timer always starts running
create_app_state_from_saved_Unpaused(saved, config, stats) ==
    [create_app_state_from_args(config, stats) EXCEPT
       !.time_remaining = DurationFromSecs(saved.time_remaining_secs),
       !.session_count = saved.session_count,
       !.phase = PhaseOfStr(saved.phase)]

create_app_state_from_saved(saved, config, stats) ==
    [create_app_state_from_args(config, stats) EXCEPT
       !.time_remaining = DurationFromSecs(saved.time_remaining_secs),
       !.paused = saved.paused,
       !.session_count = saved.session_count,
       !.phase = PhaseOfStr(saved.phase)]

\* main.rs 709-760: the AppState run_app starts with
Startup(files, args, day) ==
    LET config == ApplyArgs(load_config(files.config), args)
        stats == reset_daily_stats_if_needed(load_stats(files.stats, day), day)
        saved == load_timer_state(files.timer_state)
    IN  IF args.resume /\ saved.some
        THEN create_app_state_from_saved(saved.val, config, stats)
        ELSE create_app_state_from_args(config, stats)

(***************************************************************************)
(* run_app: the steps of the control loop                                  *)
(***************************************************************************)
\* the step took the program out of a Work phase
LeftWork(a, w) == a.phase = "Work" /\ w.pc = "running" /\ w.app.phase # "Work"

NoKey == [code |-> "None", ch |-> "", ctrl |-> FALSE]
NoCommit == [route |-> "None", field |-> "", mode |-> "", text |-> <<>>]

\* the edit buffer that Enter commits in an input mode, recorded as history
CommitOf(a, key) ==
    IF key.code = "Enter" /\ KeyRoute(a) \in {"NotesInput", "SettingsEdit"}
    THEN [route |-> KeyRoute(a),
          field |-> a.settings_selected_field,
          mode |-> a.notes_mode,
          text |-> IF KeyRoute(a) = "NotesInput" THEN a.notes_input
                   ELSE a.settings_input]
    ELSE obs.commit

\* which operation the key has reached, for the operations that leave no
\* other trace in the state; "" for every other step
LastOp(a, key) ==
    IF KeyRoute(a) = "Normal" /\ ~a.minimized /\ IsChar(key, {"r"})
    THEN "reset_timer"
    ELSE IF KeyRoute(a) = "ConfirmDelete" /\ key.code # "Esc"
            /\ ~IsChar(key, {"y", "Y", "n", "N"})
    THEN "confirm_delete_other_key"
    ELSE IF KeyRoute(a) = "Normal" /\ ~a.minimized /\ IsChar(key, {"n"})
            /\ a.paused
    THEN "skip_while_paused"
    ELSE ""

\* the state after a handler; `key` is the key handled, or NoKey
CommitState(w, key) ==
    /\ app' = w.app
    /\ disk' = w.disk
    /\ io' = w.io
    /\ pc' = w.pc
    /\ today' = w.today
    /\ obs' = [work_completed |->
                 IF LeftWork(app, w) THEN obs.work_completed + 1
                 ELSE obs.work_completed,
               commit |-> CommitOf(app, key),
               op |-> LastOp(app, key)]

Commit(w, key) == CommitState(w, key) /\ UNCHANGED fn

IsPrefix(p, t) == Len(p) <= Len(t) /\ SubSeq(t, 1, Len(p)) = p

\* the texts the user types into a note and into a settings field
NoteTexts == {<<" ">>, <<"a">>, <<" ", "b", " ">>}
SettingsTexts == {<<"9", "9", "9">>, <<"0", ".", "5">>, <<".">>, <<"0">>}
MaxNotes == 2

\* what the user is taken to do: typed text stays a prefix of one of the
\* texts, a settings buffer is committed when it is one of the texts, empty,
\* or the untouched text the edit started with, and no note is started once
\* the list holds MaxNotes
UserKey(a, key) ==
    LET route == KeyRoute(a)
    IN  /\ (route = "NotesInput" /\ key.code = "Char")
              => \E t \in NoteTexts : IsPrefix(Push(a.notes_input, key.ch), t)
        /\ (route = "SettingsEdit" /\ key.code = "Char")
              => \E t \in SettingsTexts :
                    IsPrefix(Push(a.settings_input, key.ch), t)
        /\ (route = "SettingsEdit" /\ key.code = "Enter")
              => \/ a.settings_input \in SettingsTexts \cup {<<>>}
                 \/ a.settings_input = settings_start_editing(a).settings_input
        /\ (route = "NotesView" /\ IsChar(key, {"a", "n"}))
              => Len(a.stats.notes) < MaxNotes

\* event::poll returned a key and handle_key_event returned false
\* (main.rs 799-807); sessions are counted up to `cap`
KeyStep(key, ok, cap) ==
    /\ pc = "running"
    /\ LET r == handle_key_event(World, key, ok)
       IN  /\ ~r.quit
           /\ r.w.app.session_count <= cap
           /\ Commit(r.w, key)

\* a key of the user that UserKey describes
KeyPress(key, ok, cap) == UserKey(app, key) /\ KeyStep(key, ok, cap)

\* handle_key_event returned true: save_on_quit, then return (main.rs 801-805)
Quit(key, ok_stats, ok_timer) ==
    /\ pc = "running"
    /\ LET r == handle_key_event(World, key, TRUE)
       IN  /\ r.quit
           /\ Commit([save_on_quit(r.w, ok_stats, ok_timer)
                        EXCEPT !.pc = "exited"], key)

\* the tick interval has elapsed: update_timer (main.rs 809-812)
Tick(due, cap) ==
    /\ pc = "running"
    /\ LET w == update_timer(World, due)
       IN  /\ w.app.session_count <= cap
           /\ Commit(w, NoKey)

\* auto_save_if_needed, taken when it writes (main.rs 796): the dirty flag
\* is set and 5 s have passed since the last auto-save
AutoSave(ok) ==
    /\ pc = "running"
    /\ app.needs_stats_save
    /\ Commit(auto_save_if_needed(World, TRUE, ok), NoKey)

(***************************************************************************)
(* Environments                                                            *)
(***************************************************************************)
\* the day the program runs (a Tuesday)
Today == 8

NoArgs == [work |-> NoArg, rest |-> NoArg, long_break |-> NoArg,
           sessions |-> NoArg, theme |-> NoArg, no_sound |-> FALSE,
           resume |-> FALSE]

NoFiles == [config |-> Absent, stats |-> Absent, timer_state |-> Absent,
            csv |-> Absent]

IdleFn == [op |-> "none"]

\* the initial state of a run with these files and arguments; an absent
\* Config is created on load
BootState(files, args, cfg_ok) ==
    /\ app = Startup(files, args, Today)
    /\ disk = [files EXCEPT !.config = ConfigDocAfterLoad(@, cfg_ok)]
    /\ io = <<>>
    /\ pc = IF ResetPanics(load_stats(files.stats, Today), Today)
            THEN "panicked" ELSE "running"
    /\ today = Today
    /\ obs = [work_completed |-> 0, commit |-> NoCommit, op |-> ""]

Boot(files, args, cfg_ok) == BootState(files, args, cfg_ok) /\ fn = IdleFn

\* a record loaded from the Statistics document
LoadedRecord(i) ==
    [timestamp |-> i - MAX_HISTORY - 1, phase_type |-> "Work", duration |-> 25,
     completed |-> (i % 2 = 0)]

\* a Statistics document written by an earlier run, holding n records
HistoryStats(n) ==
    [DefaultStatistics(Today) EXCEPT
       !.total_sessions = n,
       !.session_history = [i \in 1..n |-> LoadedRecord(i)]]

(***************************************************************************)
(* SpecTimer: the phase engine under ticks, pause, reset, skip and quit    *)
(***************************************************************************)
MaxSessionsTimer == 9

\* short phases: 1.2 s of work, 0.6 s of rest, 1.8 s of long break
ShortConfig ==
    [DefaultConfig EXCEPT !.work_duration = 200, !.rest_duration = 100,
                          !.long_break_duration = 300]
\* phases shorter than one tick (30 ms), a long break every second session
TinyConfig ==
    [DefaultConfig EXCEPT !.work_duration = 5, !.rest_duration = 5,
                          !.long_break_duration = 5,
                          !.sessions_before_long_break = 2,
                          !.auto_start_next = FALSE]

TimerConfigs == {ShortConfig, TinyConfig}
TimerSessionArgs == {NoArg, Arg(0)}
TimerStatsDocs == {Absent, Doc(HistoryStats(MAX_HISTORY - 1)),
                   Doc(HistoryStats(MAX_HISTORY))}
TimerKeys == {Ch(" "), Ch("r"), Ch("n")}

InitTimer ==
    \E cfg \in TimerConfigs, sess \in TimerSessionArgs, st \in TimerStatsDocs :
        Boot([NoFiles EXCEPT !.config = Doc(cfg), !.stats = st],
             [NoArgs EXCEPT !.sessions = sess], TRUE)

TimerKey == \E key \in TimerKeys : KeyPress(key, TRUE, MaxSessionsTimer)
TimerTick == \E due \in BOOLEAN : Tick(due, MaxSessionsTimer)
QuitKeys == {Ch("q"), Key("Esc"), Ctrl("c")}
TimerQuit ==
    \E key \in QuitKeys, ok_stats, ok_timer \in BOOLEAN :
        Quit(key, ok_stats, ok_timer)
TimerAutoSave == \E ok \in BOOLEAN : AutoSave(ok)

NextTimer == TimerKey \/ TimerTick \/ TimerQuit \/ TimerAutoSave

SpecTimer == InitTimer /\ [][NextTimer]_vars

(***************************************************************************)
(* Claims checked under SpecTimer                                          *)
(***************************************************************************)
TimerTickStep == \E due \in BOOLEAN : Tick(due, MaxSessionsTimer)
\* a phase-completion: every completion changes the phase
CompletionStep == pc' = "running" /\ app'.phase # app.phase
WorkCompletionStep == CompletionStep /\ app.phase = "Work"

\* C1: with sessions_before_long_break = 4 and a fresh start, the k-th
\* completed Work phase is followed by LongBreak exactly when k is a multiple
\* of 4, and by ShortBreak otherwise.
C1_LongBreakEveryFourth ==
    [][(WorkCompletionStep /\ app.sessions_before_long_break = 4)
         => /\ app'.phase = "LongBreak" <=> obs'.work_completed % 4 = 0
            /\ app'.phase = "ShortBreak" <=> obs'.work_completed % 4 # 0]_vars

\* C2: a tick never raises time_remaining within a phase, lowers it by at
\* most one tick interval, and time_remaining is never negative.
C2_TickMonotone ==
    [][/\ app.time_remaining >= 0
       /\ app'.time_remaining >= 0
       /\ (TimerTickStep /\ app'.phase = app.phase)
            => /\ app'.time_remaining <= app.time_remaining
               /\ app.time_remaining - app'.time_remaining <= TICK_MS]_vars

\* two ticks have counted the first Work phase of 1.2 s down by 100 ms
C2_Witness ==
    /\ app.phase = "Work"
    /\ ~app.paused
    /\ obs.work_completed = 0
    /\ app.work_duration = DurationFromMinutes(ShortConfig.work_duration)
    /\ app.time_remaining = app.work_duration - 2 * TICK_MS

\* C3: the session history never holds more than 100 records, and a
\* completion at 100 records removes the oldest, appends the new one last and
\* keeps the other 99 in order.
C3_HistoryBounded ==
    [][LET h == app.stats.session_history
           h2 == app'.stats.session_history
       IN  /\ Len(h) <= MAX_HISTORY
           /\ Len(h2) <= MAX_HISTORY
           /\ (CompletionStep /\ Len(h) = MAX_HISTORY)
                => /\ Len(h2) = MAX_HISTORY
                   /\ SubSeq(h2, 1, MAX_HISTORY - 1) = Tail(h)
                   /\ h2[MAX_HISTORY].timestamp = Now
                   /\ h2[MAX_HISTORY].phase_type = PhaseTypeLabel(app.phase)]_vars

\* the loaded history was full, two completions later its two oldest records
\* are gone and the two new ones are last
C3_Witness ==
    LET h == app.stats.session_history
    IN  /\ Len(h) = MAX_HISTORY
        /\ h[1] = LoadedRecord(3)
        /\ h[MAX_HISTORY - 1].timestamp = Now
        /\ h[MAX_HISTORY].timestamp = Now

TimerResetStep == KeyPress(Ch("r"), TRUE, MaxSessionsTimer)

\* C13: reset sets time_remaining to the full configured duration of the
\* current phase and clears the pause flag; the phase, session_count, the
\* history, the counters, the notes, the dirty flag and everything else stay.
C13_ResetFrame ==
    [][TimerResetStep
         => /\ app'.time_remaining =
                 (CASE app.phase = "Work" -> app.work_duration
                    [] app.phase = "ShortBreak" -> app.rest_duration
                    [] app.phase = "LongBreak" -> app.long_break_duration)
            /\ ~app'.paused
            /\ [app' EXCEPT !.time_remaining = 0, !.paused = FALSE]
                 = [app EXCEPT !.time_remaining = 0, !.paused = FALSE]
            /\ disk' = disk
            /\ io' = <<>>]_vars

\* the last step was a reset, in a long break of a run with a full history
\* and unsaved statistics
C13_Witness ==
    /\ obs.op = "reset_timer"
    /\ app.phase = "LongBreak"
    /\ app.time_remaining = app.long_break_duration
    /\ ~app.paused
    /\ app.needs_stats_save
    /\ Len(app.stats.session_history) = MAX_HISTORY

\* C14: a quit key writes the Statistics document and then the TimerState
\* snapshot before the loop exits, whatever the dirty flag and the time since
\* the last auto-save; no tick is applied in between, and the loop exits
\* whether or not the writes succeed.
C14_QuitSaves ==
    [][/\ pc # "exited"
       /\ (pc = "running" /\ pc' = "exited")
            => /\ Len(io') = 2
               /\ io'[1] \in {<<"write", "stats">>, <<"write_failed", "stats">>}
               /\ io'[2] \in {<<"write", "timer_state">>,
                               <<"write_failed", "timer_state">>}
               /\ io'[1][1] = "write" => disk'.stats = Doc(app.stats)
               /\ io'[1][1] = "write_failed" => disk'.stats = disk.stats
               /\ io'[2][1] = "write"
                    => /\ IsDoc(disk'.timer_state)
                       /\ disk'.timer_state.val.session_count
                            = app.session_count
                       /\ disk'.timer_state.val.paused = app.paused
               /\ app'.time_remaining = app.time_remaining
               /\ app'.phase = app.phase
               /\ app'.stats = app.stats
       /\ TimerQuit => pc' = "exited"]_vars

\* the loop has exited on a quit key although both writes failed; the dirty
\* flag was not set and the Statistics write was attempted all the same
C14_Witness ==
    /\ pc = "exited"
    /\ ~app.needs_stats_save
    /\ io = << <<"write_failed", "stats">>, <<"write_failed", "timer_state">> >>
    /\ app.phase = "Work"
    /\ app.time_remaining < app.work_duration

\* C10: in every reachable state the three durations are > 0 and
\* sessions_before_long_break is in [1,10], so phase-completion never fails.
C10_ConfigValid ==
    /\ pc # "panicked"
    /\ app.work_duration > 0
    /\ app.rest_duration > 0
    /\ app.long_break_duration > 0
    /\ app.sessions_before_long_break \in 1..10

TimerSkipStep == KeyPress(Ch("n"), TRUE, MaxSessionsTimer)

\* a phase-completion that returned: a skip, or a tick that left the phase
\* or changed the Statistics
PhaseCompletionStep ==
    /\ pc' = "running"
    /\ \/ TimerSkipStep
       \/ TimerTickStep /\ (app'.phase # app.phase \/ app'.stats # app.stats)

\* C22: every phase-completion (natural or skip) from ShortBreak or LongBreak
\* enters Work and every one from Work enters ShortBreak or LongBreak, and
\* right after it time_remaining is the configured duration of the phase
\* entered.
C22_PhasesAlternate ==
    [][PhaseCompletionStep
         => /\ app.phase \in {"ShortBreak", "LongBreak"} => app'.phase = "Work"
            /\ app.phase = "Work" => app'.phase \in {"ShortBreak", "LongBreak"}
            /\ app'.time_remaining =
                 (CASE app'.phase = "Work" -> app'.work_duration
                    [] app'.phase = "ShortBreak" -> app'.rest_duration
                    [] app'.phase = "LongBreak" -> app'.long_break_duration)
           ]_vars

\* the first short break has just ended and the second Work phase begins
\* with 1.2 s
C22_Witness ==
    /\ io = << <<"notify", "Back to Work!">> >>
    /\ app.phase = "Work"
    /\ app.session_count = 2
    /\ app.time_remaining = 1200
    /\ app.rest_duration = 600
    /\ Len(app.stats.session_history) = 2
    /\ app.stats.session_history[2].phase_type = "Short Break"

\* C23: a tick triggers phase-completion only when its subtraction has
\* brought time_remaining to zero: after a tick whose subtraction leaves
\* time_remaining greater than zero, the phase, session_count and the
\* Statistics are unchanged.
C23_CompletionAtZero ==
    [][(TimerTickStep /\ ~app.paused /\ app.time_remaining > TICK_MS)
         => /\ app'.phase = app.phase
            /\ app'.session_count = app.session_count
            /\ app'.stats = app.stats]_vars

\* C27: the extended-break accumulator is zero in every state whose phase
\* is LongBreak, the state right after a step that enters LongBreak included.
C27_LongBreakResets ==
    app.phase = "LongBreak" => app.total_work_time_since_break = 0

\* the third Work phase of 1.2 s has just ended in the long break; the two
\* Work phases before it had raised the accumulator
C27_Witness ==
    /\ io = << <<"notify", "Long Break Time!">> >>
    /\ app.phase = "LongBreak"
    /\ app.sessions_before_long_break = 4
    /\ app.session_count = 4
    /\ app.total_work_time_since_break = 0
    /\ app.stats.total_sessions = 3

(***************************************************************************)
(* SpecSettings: the settings editor                                       *)
(***************************************************************************)
MaxSessionsSettings == 1

\* work duration given on the command line (1.2 s), or not
SettingsWorkArgs == {NoArg, Arg(200)}
SettingsKeys ==
    {Ch("d"), Key("Down"), Key("Up"), Key("Enter"), Key("Backspace"),
     Key("Esc"), Ch("0"), Ch("."), Ch("5"), Ch("9")}

InitSettings ==
    \E work \in SettingsWorkArgs :
        Boot([NoFiles EXCEPT !.config = Doc(DefaultConfig)],
             [NoArgs EXCEPT !.work = work], TRUE)

SettingsKey == \E key \in SettingsKeys : KeyPress(key, TRUE, MaxSessionsSettings)

NextSettings == SettingsKey

SpecSettings == InitSettings /\ [][NextSettings]_vars

(***************************************************************************)
(* Claim checked under SpecSettings                                        *)
(***************************************************************************)
SettingsEnterStep == KeyPress(Key("Enter"), TRUE, MaxSessionsSettings)

\* the ranges of the five numeric fields, on the committed text
C4_InRange(f, text) ==
    LET v == ParseF64(text)
        u == ParseU32(text)
        positive == v.ok /\ ~v.neg /\ v.num > 0
    IN  CASE f = "WorkDuration" -> positive /\ v.num <= 240 * Pow10(v.dec)
          [] f = "RestDuration" -> positive /\ v.num <= 60 * Pow10(v.dec)
          [] f = "LongBreakDuration" -> positive /\ v.num <= 120 * Pow10(v.dec)
          [] f = "SessionsBeforeLongBreak" -> u.ok /\ u.val \in 1..10
          [] f = "ExtendedBreakReminder" ->
                /\ positive
                /\ 2 * v.num >= Pow10(v.dec)
                /\ v.num <= 8 * Pow10(v.dec)
          [] OTHER -> FALSE

ConfigWrites(events) ==
    {i \in 1..Len(events) : events[i][2] = "config"}

C40_DocField(f) ==
    CASE f = "WorkDuration" -> "work_duration"
      [] f = "RestDuration" -> "rest_duration"
      [] f = "LongBreakDuration" -> "long_break_duration"
      [] f = "SessionsBeforeLongBreak" -> "sessions_before_long_break"
      [] f = "Theme" -> "theme"
      [] f = "SoundEnabled" -> "sound_enabled"
      [] f = "AutoStartNext" -> "auto_start_next"
      [] f = "ExtendedBreakReminder" -> "extended_break_reminder_hours"

\* C40: an accepted settings change alters only the changed field of the
\* persisted Config document: the other seven persisted fields keep the
\* values they had in the document before the change, also when the session
\* was started with command-line overrides for those fields.
C40_OnlyChangedField ==
    [][(app.settings_editing
          /\ C4_InRange(app.settings_selected_field, app.settings_input)
          /\ SettingsEnterStep)
         => /\ IsDoc(disk'.config)
            /\ \A f \in DOMAIN disk.config.val \
                        {C40_DocField(app.settings_selected_field)} :
                  disk'.config.val[f] = disk.config.val[f]]_vars

\* C36 (SpecSettings, SpecResume): in every reachable state time_remaining is
\* at most the configured duration of the current phase, after any
\* interleaving of ticks, skips, resets, settings commits and a resumed
\* start.
C36_RemainingBounded ==
    pc = "running" => app.time_remaining <= total_duration(app)

(***************************************************************************)
(* SpecNotes: the notes manager                                            *)
(***************************************************************************)
MaxSessionsNotes == 2

\* a note loaded from the Statistics document
LoadedNote(i) ==
    [timestamp |-> 0 - i, content |-> <<"x", Digits[i + 1]>>, phase |-> "work"]
NotesStatsDocs ==
    {Absent,
     Doc([DefaultStatistics(Today) EXCEPT
            !.notes = [i \in 1..MaxNotes |-> LoadedNote(i)]])}

NotesCommandKeys ==
    {Ch("t"), Ch("a"), Ch("e"), Ch("d"), Ch("j"), Ch("k"), Ch("y"), Ch("n"),
     Key("Enter"), Key("Esc"), Key("Backspace")}
NotesTextKeys == {Ch(" "), Ch("b")}

\* the user of this specification opens the settings never and types text
\* only into a note
NotesUser(key) ==
    /\ IsChar(key, {"d"}) => app.current_view = "Notes"
    /\ key \in NotesTextKeys => KeyRoute(app) = "NotesInput"

InitNotes ==
    \E st \in NotesStatsDocs :
        Boot([NoFiles EXCEPT !.config = Doc(DefaultConfig), !.stats = st],
             NoArgs, TRUE)

NotesKey ==
    \E key \in NotesCommandKeys \cup NotesTextKeys :
        NotesUser(key) /\ KeyPress(key, TRUE, MaxSessionsNotes)

NextNotes == NotesKey

SpecNotes == InitNotes /\ [][NextNotes]_vars

(***************************************************************************)
(* Claims checked under SpecNotes                                          *)
(***************************************************************************)
NotesEnterStep == KeyPress(Key("Enter"), TRUE, MaxSessionsNotes)
NotesConfirmStep == KeyPress(Ch("y"), TRUE, MaxSessionsNotes)

C6_Blank(text) == \A i \in 1..Len(text) : text[i] = " "

\* c is text without the whitespace at its two ends
C6_Trimmed(text, c) ==
    \E i, j \in 1..Len(text) :
        /\ c = SubSeq(text, i, j)
        /\ text[i] # " "
        /\ text[j] # " "
        /\ \A k \in 1..Len(text) : (k < i \/ k > j) => text[k] = " "

\* C6: committing an added note with an empty or whitespace-only buffer
\* changes neither the notes list, nor the selection, nor the dirty flag, and
\* returns to Viewing; committing a non-blank buffer appends exactly one note
\* (content = trimmed buffer, phase label = phase at commit time), selects it,
\* sets the dirty flag and returns to Viewing.
C6_SaveNote ==
    [][(NotesEnterStep /\ app.current_view = "Notes"
          /\ app.notes_mode = "Adding")
         => LET notes == app.stats.notes
                notes2 == app'.stats.notes
            IN  /\ app'.notes_mode = "Viewing"
                /\ C6_Blank(app.notes_input)
                     => /\ notes2 = notes
                        /\ app'.selected_note_index = app.selected_note_index
                        /\ app'.needs_stats_save = app.needs_stats_save
                /\ ~C6_Blank(app.notes_input)
                     => /\ Len(notes2) = Len(notes) + 1
                        /\ SubSeq(notes2, 1, Len(notes)) = notes
                        /\ C6_Trimmed(app.notes_input,
                                      notes2[Len(notes2)].content)
                        /\ notes2[Len(notes2)].phase =
                             (CASE app.phase = "Work" -> "work"
                                [] app.phase = "ShortBreak" -> "short_break"
                                [] app.phase = "LongBreak" -> "long_break")
                        /\ app'.selected_note_index = Some(Len(notes2) - 1)
                        /\ app'.needs_stats_save]_vars

\* " b " was committed during a short break and became the note "b"; the
\* whitespace-only commit that followed left the list and the selection alone
C6_Witness ==
    /\ obs.commit.route = "NotesInput"
    /\ obs.commit.mode = "Adding"
    /\ obs.commit.text = <<" ">>
    /\ app.notes_mode = "Viewing"
    /\ Len(app.stats.notes) = 1
    /\ app.stats.notes[1].content = <<"b">>
    /\ app.stats.notes[1].phase = "short_break"
    /\ app.stats.notes[1].timestamp = Now
    /\ app.selected_note_index = Some(0)

\* C7: confirming deletion removes exactly the note at the selected index;
\* deleting the only note leaves no selection, deleting a note that is not the
\* last keeps the index, which then designates the note shifted into the slot,
\* and deleting the last note of a longer list selects the new last note.
C7_DeleteNote ==
    [][(NotesConfirmStep /\ app.current_view = "Notes"
          /\ app.notes_mode = "ConfirmingDelete")
         => LET notes == app.stats.notes
                notes2 == app'.stats.notes
                n == Len(notes)
                i == app.selected_note_index.idx
            IN  /\ app.selected_note_index.some
                /\ i < n
                /\ Len(notes2) = n - 1
                /\ \A j \in 1..(n - 1) :
                       notes2[j] = IF j <= i THEN notes[j] ELSE notes[j + 1]
                /\ n = 1 => app'.selected_note_index = None
                /\ (n > 1 /\ i < n - 1)
                     => /\ app'.selected_note_index = Some(i)
                        /\ notes2[i + 1] = notes[i + 2]
                /\ (n > 1 /\ i = n - 1)
                     => app'.selected_note_index = Some(n - 2)
                /\ app'.notes_mode = "Viewing"]_vars

\* of the loaded notes the first was deleted; the selection stayed on index 0,
\* where the second note now is
C7_Witness ==
    /\ app.stats.notes = <<LoadedNote(MaxNotes)>>
    /\ app.selected_note_index = Some(0)
    /\ app.notes_mode = "Viewing"
    /\ app.needs_stats_save

\* C35: selection validity: in every reachable state, after any sequence of
\* add, edit, delete, navigation and open-notes actions, selected_note_index
\* is None exactly when the notes list is empty, and otherwise is an index
\* strictly below the length of the notes list.
C35_SelectionValid ==
    /\ ~app.selected_note_index.some <=> app.stats.notes = <<>>
    /\ app.selected_note_index.some
         => app.selected_note_index.idx < Len(app.stats.notes)

\* the first loaded note was deleted, a note was added and selected, and the
\* selection was moved up to the note before it
C35_Witness ==
    /\ Len(app.stats.notes) = MaxNotes
    /\ app.stats.notes[1] = LoadedNote(MaxNotes)
    /\ app.stats.notes[MaxNotes].content = <<"b">>
    /\ app.selected_note_index = Some(0)
    /\ app.notes_mode = "Viewing"

(***************************************************************************)
(* SpecDaily: the daily reset of main applied to loaded Statistics         *)
(***************************************************************************)
MaxWeeklyCount == 2
MaxStartups == 2

DailyStats ==
    {[DefaultStatistics(d) EXCEPT !.weekly_sessions = wk,
                                  !.sessions_today = wk[WEEK_LEN],
                                  !.total_sessions = wk[WEEK_LEN]] :
        d \in {Today - 1, Today},
        wk \in [1..WEEK_LEN -> 0..MaxWeeklyCount]}

\* the state of a program that is not running; fn holds the function applied
Harness(f) ==
    /\ app = Startup(NoFiles, NoArgs, Today)
    /\ disk = NoFiles
    /\ io = <<>>
    /\ pc = "off"
    /\ today = Today
    /\ obs = [work_completed |-> 0, commit |-> NoCommit, op |-> ""]
    /\ fn = f

InitDaily ==
    \E st \in DailyStats :
        Harness([op |-> "reset_daily_stats_if_needed", input |-> st,
                 once |-> st, stats |-> st, runs |-> 0])

\* main.rs 735-738 on the Statistics the previous startup left
DailyReset ==
    /\ fn.op = "reset_daily_stats_if_needed"
    /\ fn.runs < MaxStartups
    /\ LET stats == reset_daily_stats_if_needed(fn.stats, today)
       IN  fn' = [fn EXCEPT !.stats = stats,
                            !.once = IF fn.runs = 0 THEN stats ELSE @,
                            !.runs = @ + 1]
    /\ UNCHANGED <<app, disk, io, pc, today, obs>>

NextDaily == DailyReset

SpecDaily == InitDaily /\ [][NextDaily]_vars

\* C5: when the last-activity date differs from today the reset zeroes
\* sessions_today, rotates the weekly array left by one with its last slot set
\* to 0 and sets the date to today; when the date is today nothing changes,
\* and a second reset on the same day gives what the first one gave.
C5_DailyReset ==
    (fn.op = "reset_daily_stats_if_needed" /\ fn.runs >= 1)
      => /\ fn.input.last_session_date # today
              => /\ fn.once.sessions_today = 0
                 /\ fn.once.last_session_date = today
                 /\ fn.once.weekly_sessions =
                      [i \in 1..WEEK_LEN |->
                         IF i < WEEK_LEN THEN fn.input.weekly_sessions[i + 1]
                         ELSE 0]
                 /\ fn.once.total_sessions = fn.input.total_sessions
         /\ fn.input.last_session_date = today => fn.once = fn.input
         /\ fn.stats = fn.once

\* two startups on the day after the last activity
C5_Witness ==
    /\ fn.op = "reset_daily_stats_if_needed"
    /\ fn.runs = 2
    /\ fn.input.last_session_date = Today - 1
    /\ fn.input.weekly_sessions = <<1, 2, 0, 0, 0, 0, 2>>
    /\ fn.input.sessions_today = 2
    /\ fn.stats.weekly_sessions = <<2, 0, 0, 0, 0, 2, 0>>
    /\ fn.stats.sessions_today = 0

\* the slot that update_weekly_stats counts up on `day`, in the Statistics
\* `stats`: the one that differs afterwards
C29_TodaySlot(stats, day) ==
    LET counted == update_weekly_stats([app EXCEPT !.stats = stats], day)
    IN  {i \in 1..Len(stats.weekly_sessions) :
           counted.stats.weekly_sessions[i] # stats.weekly_sessions[i]}

\* C29: after the startup daily reset on a new day, the weekly slot that
\* today's Work completions increment (the index of today's weekday, index 0
\* being Monday) holds zero.
C29_FreshTodaySlot ==
    (fn.op = "reset_daily_stats_if_needed" /\ fn.runs >= 1
       /\ fn.input.last_session_date # today)
      => \A i \in C29_TodaySlot(fn.once, today) :
            fn.once.weekly_sessions[i] = 0

(***************************************************************************)
(* SpecParse: parse_duration_arg on strings of <number><unit> segments     *)
(***************************************************************************)
MaxSegments == 2

\* number texts with what they are worth in thousandths; ok = FALSE marks a
\* text that is no number
ParseNumbers ==
    {[text |-> <<"0">>, ok |-> TRUE, milli |-> 0],
     [text |-> <<"1">>, ok |-> TRUE, milli |-> 1000],
     [text |-> <<"2", "5">>, ok |-> TRUE, milli |-> 25000],
     [text |-> <<"1", ".", "5">>, ok |-> TRUE, milli |-> 1500],
     [text |-> <<".", "5">>, ok |-> TRUE, milli |-> 500],
     [text |-> <<"2", ".">>, ok |-> TRUE, milli |-> 2000],
     [text |-> <<"0", ".", "2", "5">>, ok |-> TRUE, milli |-> 250],
     [text |-> <<>>, ok |-> FALSE, milli |-> 0],
     [text |-> <<".">>, ok |-> FALSE, milli |-> 0],
     [text |-> <<"1", ".", ".", "5">>, ok |-> FALSE, milli |-> 0]}
ParseUnits == {"h", "m", "s"}
ParseSegments == [num : ParseNumbers, unit : ParseUnits]
ParseInputs ==
    UNION {[1..n -> ParseSegments] : n \in 1..MaxSegments}

RECURSIVE SegmentsText(_)
SegmentsText(segs) ==
    IF segs = <<>> THEN <<>>
    ELSE Head(segs).num.text \o <<Head(segs).unit>> \o SegmentsText(Tail(segs))

InitParse ==
    \E segs \in ParseInputs :
        Harness([op |-> "parse_duration_arg", segs |-> segs,
                 input |-> SegmentsText(segs), done |-> FALSE,
                 result |-> [ok |-> FALSE, minutes |-> 0]])

ParseArg ==
    /\ fn.op = "parse_duration_arg"
    /\ ~fn.done
    /\ fn' = [fn EXCEPT !.done = TRUE,
                        !.result = parse_duration_arg(fn.input)]
    /\ UNCHANGED <<app, disk, io, pc, today, obs>>

NextParse == ParseArg

SpecParse == InitParse /\ [][NextParse]_vars

\* the minutes of a segment in 1/60000 minute: h x 60, m x 1, s / 60
C8_SegmentMinutes(seg) ==
    CASE seg.unit = "h" -> seg.num.milli * 60 * 60
      [] seg.unit = "m" -> seg.num.milli * 60
      [] seg.unit = "s" -> seg.num.milli

RECURSIVE C8_Sum(_)
C8_Sum(segs) ==
    IF segs = <<>> THEN 0 ELSE C8_SegmentMinutes(Head(segs)) + C8_Sum(Tail(segs))

\* C8: the result for a string of <number><unit> segments is the sum of the
\* segments in minutes (h x 60, m x 1, s / 60); a total that is not positive,
\* or a unit with no valid number before it, gives an error.
C8_ParseSum ==
    (fn.op = "parse_duration_arg" /\ fn.done)
      => IF (\A i \in 1..Len(fn.segs) : fn.segs[i].num.ok)
            /\ C8_Sum(fn.segs) > 0
         THEN fn.result.ok /\ fn.result.minutes = C8_Sum(fn.segs)
         ELSE ~fn.result.ok

\* "1.5h25s" was parsed to 90 minutes and 25 seconds
C8_Witness ==
    /\ fn.op = "parse_duration_arg"
    /\ fn.done
    /\ fn.input = <<"1", ".", "5", "h", "2", "5", "s">>
    /\ fn.result.ok
    /\ fn.result.minutes = 90 * 60000 + 25 * 1000

(***************************************************************************)
(* SpecCsv: the export of the statistics views                             *)
(***************************************************************************)
MaxCsvNotes == 2
MaxSessionsCsv == 1

CsvContents ==
    {<<"a">>, <<"a", ",">>, <<"\"">>, <<"\"", "a", "\"", ",">>}
CsvNoteLists ==
    UNION {[1..n -> [timestamp : {0 - 1}, phase : {"work"},
                     content : CsvContents]] : n \in 0..MaxCsvNotes}
CsvHistoryLengths ==
    {0, CSV_HISTORY_ROWS - 1, CSV_HISTORY_ROWS, CSV_HISTORY_ROWS + 1}
CsvKeys == {Ch("s"), Key("Tab"), Ch("e")}

InitCsv ==
    \E notes \in CsvNoteLists, n \in CsvHistoryLengths :
        Boot([NoFiles EXCEPT
                !.config = Doc(DefaultConfig),
                !.stats = Doc([HistoryStats(n) EXCEPT !.notes = notes])],
             NoArgs, TRUE)

CsvKey ==
    \E key \in CsvKeys, ok \in BOOLEAN : KeyPress(key, ok, MaxSessionsCsv)

NextCsv == CsvKey

SpecCsv == InitCsv /\ [][NextCsv]_vars

\* the text of which `field` is the doubling of every double quote, or
\* <<"?">> when `field` holds a double quote that is not doubled
RECURSIVE C9_Undouble(_)
C9_Undouble(field) ==
    IF field = <<>> THEN <<>>
    ELSE IF Head(field) # "\"" THEN <<Head(field)>> \o C9_Undouble(Tail(field))
    ELSE IF Len(field) >= 2 /\ field[2] = "\""
         THEN <<"\"">> \o C9_Undouble(Tail(Tail(field)))
    ELSE <<"?">>

C9_Plain(content) ==
    \A i \in 1..Len(content) : content[i] \notin {",", "\""}

\* C9: a note's content is written unchanged when it holds neither a comma
\* nor a double quote, and otherwise wrapped in double quotes with every inner
\* double quote doubled; notes are written newest first and the history
\* section holds at most the 50 most recent records, newest first.
C9_CsvExport ==
    IsDoc(disk.csv)
      => LET csv == disk.csv.val
             notes == app.stats.notes
             h == app.stats.session_history
         IN  /\ Len(csv.notes) = Len(notes)
             /\ \A i \in 1..Len(notes) :
                    LET field == csv.notes[i][3]
                        content == notes[Len(notes) + 1 - i].content
                    IN  IF C9_Plain(content) THEN field = content
                        ELSE /\ Len(field) >= 2
                             /\ field[1] = "\""
                             /\ field[Len(field)] = "\""
                             /\ C9_Undouble(SubSeq(field, 2, Len(field) - 1))
                                  = content
             /\ Len(csv.history) = IF Len(h) <= 50 THEN Len(h) ELSE 50
             /\ \A i \in 1..Len(csv.history) :
                    csv.history[i][1] = h[Len(h) + 1 - i].timestamp

\* the export of 51 records and of two notes, the newer one holding quotes
\* and a comma
C9_Witness ==
    /\ IsDoc(disk.csv)
    /\ Len(app.stats.session_history) = CSV_HISTORY_ROWS + 1
    /\ Len(disk.csv.val.history) = CSV_HISTORY_ROWS
    /\ Len(app.stats.notes) = 2
    /\ app.stats.notes[1].content = <<"a">>
    /\ app.stats.notes[2].content = <<"\"", "a", "\"", ",">>
    /\ disk.csv.val.notes[1][3] =
         <<"\"", "\"", "\"", "a", "\"", "\"", ",", "\"">>
    /\ disk.csv.val.notes[2][3] = <<"a">>

(***************************************************************************)
(* SpecWeekly: phase completions on loaded Statistics                      *)
(***************************************************************************)
MaxSessionsWeekly == 3

\* weekly arrays as a Statistics document can hold them
WeeklyArrays == {[i \in 1..n |-> i] : n \in {WEEK_LEN - 1, WEEK_LEN, WEEK_LEN + 1}}
WeeklyStatsDocs ==
    {Absent} \cup
    {Doc([DefaultStatistics(d) EXCEPT !.weekly_sessions = wk,
                                      !.sessions_today = 1,
                                      !.total_sessions = 1]) :
        d \in {Today - 1, Today}, wk \in WeeklyArrays}

InitWeekly ==
    \E cfg \in TimerConfigs, st \in WeeklyStatsDocs :
        Boot([NoFiles EXCEPT !.config = Doc(cfg), !.stats = st],
             NoArgs, TRUE)

WeeklyKey == \E key \in TimerKeys : KeyPress(key, TRUE, MaxSessionsWeekly)
WeeklyTick == \E due \in BOOLEAN : Tick(due, MaxSessionsWeekly)

NextWeekly == WeeklyKey \/ WeeklyTick

SpecWeekly == InitWeekly /\ [][NextWeekly]_vars

\* C11: in every reachable state, from the Statistics loaded at startup
\* through the daily reset and any sequence of phase completions,
\* stats.weekly_sessions has exactly 7 elements.
C11_WeeklySeven ==
    /\ pc # "panicked"
    /\ Len(app.stats.weekly_sessions) = WEEK_LEN

(***************************************************************************)
(* SpecSkip: skips and tick-triggered completions, with the reminder       *)
(***************************************************************************)
MaxSessionsSkip == 4

\* extended_break_reminder_hours: the default, and the 0 that the settings
\* screen documents as "0 to disable"
SkipReminderHours == {0, DefaultConfig.extended_break_reminder_hours}
SkipConfigs ==
    {[cfg EXCEPT !.extended_break_reminder_hours = h] :
        cfg \in TimerConfigs, h \in SkipReminderHours}

InitSkip ==
    \E cfg \in SkipConfigs :
        Boot([NoFiles EXCEPT !.config = Doc(cfg)], NoArgs, TRUE)

SkipKey == \E key \in TimerKeys : KeyPress(key, TRUE, MaxSessionsSkip)
SkipTick == \E due \in BOOLEAN : Tick(due, MaxSessionsSkip)

NextSkip == SkipKey \/ SkipTick

SpecSkip == InitSkip /\ [][NextSkip]_vars

\* what the claim lets differ in two histories: the completed flag of the
\* record appended last
C12_SameHistory(h1, h2) ==
    /\ Len(h1) = Len(h2)
    /\ \A i \in 1..Len(h1) :
          IF i < Len(h1) THEN h1[i] = h2[i]
          ELSE [h1[i] EXCEPT !.completed = TRUE]
                 = [h2[i] EXCEPT !.completed = TRUE]

\* C12: from two states that differ only in time_remaining, the skip and a
\* tick-triggered completion give the same phase, session_count,
\* time_remaining, paused flag, statistics counters, break accumulator and
\* dirty flag; only the completed flag of the appended record may differ.
C12_SkipEquivalent ==
    [][(SkipTick /\ pc' = "running" /\ app'.phase # app.phase)
         => \A t \in {0, app.time_remaining, total_duration(app)} :
              LET skipped ==
                    next_phase([World EXCEPT !.app.time_remaining = t]).app
              IN  /\ app'.phase = skipped.phase
                  /\ app'.session_count = skipped.session_count
                  /\ app'.time_remaining = skipped.time_remaining
                  /\ app'.paused = skipped.paused
                  /\ app'.stats.total_sessions = skipped.stats.total_sessions
                  /\ app'.stats.sessions_today = skipped.stats.sessions_today
                  /\ app'.stats.total_work_time = skipped.stats.total_work_time
                  /\ app'.stats.total_break_time
                       = skipped.stats.total_break_time
                  /\ app'.stats.weekly_sessions
                       = skipped.stats.weekly_sessions
                  /\ app'.total_work_time_since_break
                       = skipped.total_work_time_since_break
                  /\ app'.needs_stats_save = skipped.needs_stats_save
                  /\ C12_SameHistory(app'.stats.session_history,
                                     skipped.stats.session_history)]_vars

\* the reminder fired in the step
C28_ReminderFired(events) ==
    \E i \in 1..Len(events) :
        events[i] = <<"notify", "Extended Break Recommended">>

\* C28: the extended-break accumulator is the Work time actually elapsed
\* since the last long break or fired reminder: a tick of a running Work
\* phase that neither ends the phase nor fires the reminder raises it by the
\* time counted down, and skipping a Work phase (into a short break) adds
\* nothing beyond the time already counted.
C28_AccumulatorElapsed ==
    [][/\ (SkipTick /\ app.phase = "Work" /\ app'.phase = "Work"
             /\ ~app.paused /\ app.time_remaining > 0
             /\ ~C28_ReminderFired(io'))
            => app'.total_work_time_since_break
                 = app.total_work_time_since_break
                     + (app.time_remaining - app'.time_remaining)
       /\ (KeyPress(Ch("n"), TRUE, MaxSessionsSkip) /\ app.phase = "Work"
             /\ app'.phase = "ShortBreak")
            => app'.total_work_time_since_break
                 = app.total_work_time_since_break]_vars

\* Enter commits the text "0" in the extended-break-reminder field
C33_ZeroCommitStep ==
    /\ app.settings_editing
    /\ app.settings_selected_field = "ExtendedBreakReminder"
    /\ app.settings_input = <<"0">>
    /\ SettingsEnterStep

\* C33 (SpecSettings, SpecSkip): as the settings hint states ("0.5-8.0
\* hours, 0 to disable"), committing 0 in the extended-break-reminder field
\* is accepted and disables the reminder: with the value 0 no extended-break
\* warning is ever fired.
C33_ZeroDisables ==
    [][/\ C33_ZeroCommitStep
            => /\ app'.extended_break_reminder_hours = 0
               /\ io' = << <<"write", "config">> >>
       /\ app.extended_break_reminder_hours = 0
            => ~C28_ReminderFired(io')]_vars

(***************************************************************************)
(* SpecAutoSave: the loop with the age of last_auto_save                   *)
(***************************************************************************)
MaxSessionsAutoSave == 3
MaxClockSecs == 6

\* last_auto_save = Instant::now(): fn holds the whole seconds since then,
\* the Statistics of the last auto-save if its write failed (`failed`), and
\* whether the last auto-save wrote Statistics whose write had failed before
ClockStart ==
    [op |-> "clock", since_save |-> 0, failed |-> <<>>, retried |-> FALSE]

\* stats.json at startup: missing, or written yesterday after one session
AutoSaveStatsDocs ==
    {Absent,
     Doc([DefaultStatistics(Today - 1) EXCEPT
            !.total_sessions = 1, !.sessions_today = 1,
            !.weekly_sessions = <<1, 0, 0, 0, 0, 0, 0>>])}

InitAutoSave ==
    \E cfg \in TimerConfigs, st \in AutoSaveStatsDocs :
        /\ BootState([NoFiles EXCEPT !.config = Doc(cfg), !.stats = st],
                     NoArgs, TRUE)
        /\ fn = ClockStart

\* one second of real time passes
ClockSecond ==
    /\ pc = "running"
    /\ fn.since_save < MaxClockSecs
    /\ fn' = [fn EXCEPT !.since_save = @ + 1]
    /\ io' = <<>>
    /\ UNCHANGED <<app, disk, pc, today, obs>>

\* app.auto_save_if_needed() at the top of a loop iteration (main.rs 796)
AutoSaveLoop(ok) ==
    /\ pc = "running"
    /\ LET elapsed == fn.since_save >= AUTO_SAVE_SECS
       IN  /\ CommitState(auto_save_if_needed(World, elapsed, ok), NoKey)
           /\ fn' = IF app.needs_stats_save /\ elapsed
                    THEN [ClockStart EXCEPT
                            !.failed = IF ok THEN <<>> ELSE <<app.stats>>,
                            !.retried = (fn.failed = <<app.stats>>)]
                    ELSE fn

AutoSaveCall == \E ok \in BOOLEAN : AutoSaveLoop(ok)
AutoSaveKey == \E key \in TimerKeys : KeyPress(key, TRUE, MaxSessionsAutoSave)
AutoSaveTick == \E due \in BOOLEAN : Tick(due, MaxSessionsAutoSave)
AutoSaveQuit ==
    \E ok_stats, ok_timer \in BOOLEAN : Quit(Ch("q"), ok_stats, ok_timer)

NextAutoSave ==
    ClockSecond \/ AutoSaveCall \/ AutoSaveKey \/ AutoSaveTick \/ AutoSaveQuit

SpecAutoSave == InitAutoSave /\ [][NextAutoSave]_vars

StatsWrites(events) == {i \in 1..Len(events) : events[i][2] = "stats"}

\* C15: outside quit a Statistics write happens only in a loop iteration
\* where the dirty flag is set and at least 5 seconds have passed since the
\* previous auto-save or the start; the write restarts the 5 seconds, so the
\* mutations of one window cause at most one write; a successful write
\* clears the dirty flag.
C15_Debounce ==
    [][(pc' = "running" /\ StatsWrites(io') # {})
         => /\ app.needs_stats_save
            /\ fn.since_save >= 5
            /\ fn'.since_save = 0
            /\ Cardinality(StatsWrites(io')) = 1
            /\ io' = << <<"write", "stats">> >>
                 => /\ ~app'.needs_stats_save
                    /\ disk'.stats = Doc(app.stats)
            /\ io' # << <<"write", "stats">> >>
                 => /\ app'.needs_stats_save
                    /\ disk'.stats = disk.stats]_vars

\* one auto-save has written the two Work completions of the first window
C15_Witness ==
    /\ pc = "running"
    /\ io = << <<"write", "stats">> >>
    /\ fn.since_save = 0
    /\ ~app.needs_stats_save
    /\ IsDoc(disk.stats)
    /\ disk.stats.val.total_sessions = 2

\* the Statistics last written or loaded: the document, or the defaults that
\* load_stats takes for a missing or unparsable one
C30_Persisted ==
    IF IsDoc(disk.stats) THEN disk.stats.val ELSE DefaultStatistics(today)

\* C30: in every reachable state where the in-memory Statistics differ from
\* the Statistics document last written or loaded, the dirty flag is set;
\* every mutation (phase completion, note add, edit, delete, the startup
\* daily reset) leaves it set.
C30_DirtySound ==
    (pc = "running" /\ app.stats # C30_Persisted) => app.needs_stats_save

\* an auto-save whose write failed: the step of a running loop that leaves
\* the failed Statistics write as its only event
C31_FailedAutoSave ==
    pc' = "running" /\ io' = << <<"write_failed", "stats">> >>

\* an auto-save that attempts the write of Statistics whose last auto-save
\* failed and that have not been mutated since
C31_Retry ==
    /\ pc' = "running"
    /\ StatsWrites(io') # {}
    /\ fn.failed = <<app.stats>>

\* C31 as stated: a failed Statistics write is swallowed and not retried:
\* after an auto-save whose write fails the loop continues with the timer,
\* notes and settings state unchanged, and no further auto-save write is
\* attempted until the Statistics are mutated again.
C31_NoRetry ==
    [][/\ C31_FailedAutoSave => (app' = app /\ disk' = disk)
       /\ ~C31_Retry]_vars

\* C31 as amended: a failed Statistics write is swallowed and not retried at
\* once: after an auto-save whose write fails the loop continues with the
\* timer, notes and settings state unchanged and the dirty flag still set,
\* and no further auto-save write is attempted until 5 seconds have passed
\* since the failed one.
C31_RetryAfterWindow ==
    [][/\ C31_FailedAutoSave
            => (app' = app /\ disk' = disk /\ app'.needs_stats_save)
       /\ C31_Retry => fn.since_save >= AUTO_SAVE_SECS]_vars

\* the Statistics of a completed Work session, whose first auto-save failed,
\* have been written by the auto-save of a later window
C31_Witness ==
    /\ pc = "running"
    /\ fn.retried
    /\ io = << <<"write", "stats">> >>
    /\ disk.stats = Doc(app.stats)
    /\ app.stats.total_sessions > 0

(***************************************************************************)
(* SpecMinimize: the keys of the normal route, minimized or not            *)
(***************************************************************************)
MaxSessionsMinimize == 2

MinimizeToggleKeys == {Ch("m"), Ch("M")}
MinimizeOtherKeys ==
    {Ch(" "), Ch("r"), Ch("n"), Ch("t"), Ch("d"), Ch("s"), Ch("h"), Ch("e"),
     Key("Tab"), Key("Enter"), Ch("q"), Key("Esc"), Ctrl("c")}

InitMinimize ==
    Boot([NoFiles EXCEPT !.config = Doc(TinyConfig)], NoArgs, TRUE)

MinimizeKey ==
    \E key \in MinimizeToggleKeys \cup MinimizeOtherKeys :
        KeyPress(key, TRUE, MaxSessionsMinimize)
MinimizeQuit ==
    \E key \in MinimizeOtherKeys : Quit(key, TRUE, TRUE)
MinimizeTick == \E due \in BOOLEAN : Tick(due, MaxSessionsMinimize)

NextMinimize == MinimizeKey \/ MinimizeQuit \/ MinimizeTick

SpecMinimize == InitMinimize /\ [][NextMinimize]_vars

\* C16: while the minimized flag is set, every key other than the minimize
\* toggle leaves the whole application state unchanged and does not signal
\* quit.
C16_MinimizedBlocks ==
    [][app.minimized
         => \A key \in MinimizeOtherKeys :
               /\ KeyPress(key, TRUE, MaxSessionsMinimize)
                    => (app' = app /\ disk' = disk)
               /\ ~Quit(key, TRUE, TRUE)]_vars

\* C32: the minimize toggle works in any view: from each of the seven views,
\* with no input mode active, pressing the minimize key flips the minimized
\* flag and changes nothing else, and pressing it twice restores the
\* original state.
C32_MinimizeAnyView ==
    (pc = "running" /\ app.notes_mode = "Viewing" /\ ~app.settings_editing)
        => \A key \in MinimizeToggleKeys :
              LET once == handle_key_event(World, key, TRUE)
                  twice == handle_key_event(once.w, key, TRUE)
              IN  /\ ~once.quit
                  /\ once.w.app = [app EXCEPT !.minimized = ~@]
                  /\ once.w.disk = disk
                  /\ ~twice.quit
                  /\ twice.w.app = app

\* the Phase Engine fields: phase, countdown, pause flag, session counter
\* and the configuration
C39_PhaseEngine(a) ==
    [phase |-> a.phase, time_remaining |-> a.time_remaining,
     paused |-> a.paused, session_count |-> a.session_count,
     config |-> ConfigOf(a), work_duration |-> a.work_duration,
     rest_duration |-> a.rest_duration,
     long_break_duration |-> a.long_break_duration]

C39_Views ==
    {"Timer", "Help", "StatsSummary", "StatsDetailed", "StatsHistory",
     "Settings", "Notes"}
C39_NotesModes == {"Viewing", "Adding", "Editing", "ConfirmingDelete"}

\* C39: the countdown is independent of what is displayed: two states that
\* agree on the Phase Engine fields but differ in current_view, minimized
\* flag, notes mode or settings-editing state yield the same Phase Engine
\* fields after a tick, so the timer keeps running while minimized, in any
\* view and while a note or setting is being edited.
C39_CountdownBlind ==
    pc = "running"
        => \A view \in C39_Views, mode \in C39_NotesModes,
              min \in BOOLEAN, editing \in BOOLEAN, due \in BOOLEAN :
              LET other == [app EXCEPT !.current_view = view,
                                       !.notes_mode = mode,
                                       !.minimized = min,
                                       !.settings_editing = editing]
                  here == update_timer(World, due)
                  there == update_timer(SetApp(World, other), due)
              IN  /\ C39_PhaseEngine(there.app) = C39_PhaseEngine(here.app)
                  /\ there.pc = here.pc
                  /\ there.app.current_view = view
                  /\ there.app.minimized = min

\* a tick has ended the first Work phase while a note was being added
C39_Witness ==
    /\ pc = "running"
    /\ app.notes_mode = "Adding"
    /\ app.current_view = "Notes"
    /\ app.phase = "LongBreak"
    /\ io = << <<"notify", "Long Break Time!">> >>

(***************************************************************************)
(* SpecModes: every key in every input mode                                *)
(***************************************************************************)
MaxSessionsModes == 2
MaxInputLen == 1

ModesKeys ==
    {Ch("t"), Ch("a"), Ch("e"), Ch("d"), Ch("y"), Ch("n"), Ch("Y"), Ch("N"),
     Ch("q"), Ch("m"), Ch(" "), Ch("r"), Ctrl("c"), Key("Enter"), Key("Esc"),
     Key("Backspace"), Key("Down")}

\* the user of this specification types any key into a buffer shorter than
\* MaxInputLen, commits a note or a settings buffer that is empty or
\* untouched, and toggles no boolean setting
ModesUser(key) ==
    LET route == KeyRoute(app)
    IN  /\ (route = "NotesInput" /\ key.code = "Char")
              => Len(app.notes_input) < MaxInputLen
        /\ (route = "NotesInput" /\ key.code = "Enter")
              => \/ app.notes_input = <<>>
                 \/ /\ app.notes_mode = "Editing"
                    /\ app.notes_input = start_edit_note(app).notes_input
        /\ (route = "SettingsEdit" /\ key.code = "Char")
              => Len(app.settings_input) < MaxInputLen
        /\ (route = "SettingsEdit" /\ key.code = "Enter")
              => \/ app.settings_input = <<>>
                 \/ app.settings_input
                      = settings_start_editing(app).settings_input
        /\ route = "SettingsView" => ~IsChar(key, {" "})

ModesStats == [DefaultStatistics(Today) EXCEPT !.notes = <<LoadedNote(1)>>]

InitModes ==
    Boot([NoFiles EXCEPT !.config = Doc(DefaultConfig),
                         !.stats = Doc(ModesStats)], NoArgs, TRUE)

ModesKey ==
    \E key \in ModesKeys :
        ModesUser(key) /\ KeyStep(key, TRUE, MaxSessionsModes)
ModesQuit == \E key \in ModesKeys : Quit(key, TRUE, TRUE)

NextModes == ModesKey \/ ModesQuit

SpecModes == InitModes /\ [][NextModes]_vars

InInputMode ==
    \/ app.notes_mode \in {"Adding", "Editing", "ConfirmingDelete"}
    \/ app.settings_editing

\* C17: while notes_mode is Adding, Editing or ConfirmingDelete, or
\* settings_editing is true, no key press changes current_view, the minimized
\* flag, the phase, the pause flag or time_remaining, and none signals quit.
C17_InputModePriority ==
    [][InInputMode
         => /\ pc' = "running"
            /\ app'.current_view = app.current_view
            /\ app'.minimized = app.minimized
            /\ app'.phase = app.phase
            /\ app'.paused = app.paused
            /\ app'.time_remaining = app.time_remaining
            /\ app'.session_count = app.session_count]_vars

\* q was typed into a new note during a paused short break
C17_Witness ==
    /\ app.notes_mode = "Adding"
    /\ app.notes_input = <<"q">>
    /\ app.current_view = "Notes"
    /\ app.phase = "ShortBreak"
    /\ app.paused
    /\ pc = "running"

C18_CommitKey(key) == key.code \in {"Enter", "Esc"}
\* y and n in either case, and Escape
C18_AnswerKey(key) ==
    key.code = "Esc" \/ (key.code = "Char" /\ key.ch \in {"y", "Y", "n", "N"})

\* C18: Adding, Editing and ConfirmingDelete are entered only from Viewing,
\* by add, edit and delete-request; from Adding or Editing only Enter or
\* Escape return to Viewing and every other key changes at most the text
\* buffer; from ConfirmingDelete only y, n or Escape return to Viewing and
\* every other key changes nothing; no step leads from one non-Viewing mode
\* to another.
C18_NotesModeMachine ==
    [][\A key \in ModesKeys :
          KeyStep(key, TRUE, MaxSessionsModes)
            => /\ app.notes_mode \in {"Adding", "Editing"}
                    => IF C18_CommitKey(key)
                       THEN app'.notes_mode = "Viewing"
                       ELSE [app' EXCEPT !.notes_input = <<>>]
                              = [app EXCEPT !.notes_input = <<>>]
               /\ app.notes_mode = "ConfirmingDelete"
                    => IF C18_AnswerKey(key)
                       THEN app'.notes_mode = "Viewing"
                       ELSE app' = app
               /\ (app'.notes_mode # app.notes_mode
                     /\ app'.notes_mode # "Viewing")
                    => /\ app.notes_mode = "Viewing"
                       /\ app.current_view = "Notes"
                       /\ key.code = "Char"
                       /\ app'.notes_mode =
                            (CASE key.ch \in {"a", "n"} -> "Adding"
                               [] key.ch = "e" -> "Editing"
                               [] key.ch = "d" -> "ConfirmingDelete"
                               [] OTHER -> "Viewing")]_vars

\* a key other than y, n and Escape was pressed at the delete confirmation,
\* which still waits for the answer
C18_Witness ==
    /\ obs.op = "confirm_delete_other_key"
    /\ app.notes_mode = "ConfirmingDelete"
    /\ app.current_view = "Notes"
    /\ Len(app.stats.notes) = 1
    /\ app.selected_note_index = Some(0)

\* C21: the notes list loses an element only through the confirm key (y, Y)
\* pressed in ConfirmingDelete, and then exactly one; ConfirmingDelete is
\* entered only from Viewing in the Notes view with a note selected; declining
\* (n, N) or Escape returns to Viewing with the notes list, the selection and
\* the dirty flag unchanged.
C21_DeleteOnlyConfirmed ==
    [][/\ Len(app'.stats.notes) < Len(app.stats.notes)
            => /\ app.notes_mode = "ConfirmingDelete"
               /\ Len(app'.stats.notes) = Len(app.stats.notes) - 1
               /\ \E key \in {Ch("y"), Ch("Y")} :
                      KeyStep(key, TRUE, MaxSessionsModes)
       /\ (app'.notes_mode = "ConfirmingDelete"
             /\ app.notes_mode # "ConfirmingDelete")
            => /\ app.notes_mode = "Viewing"
               /\ app.current_view = "Notes"
               /\ app.selected_note_index.some
               /\ app.selected_note_index.idx < Len(app.stats.notes)
       /\ \A key \in {Ch("n"), Ch("N"), Key("Esc")} :
            (app.notes_mode = "ConfirmingDelete"
               /\ KeyStep(key, TRUE, MaxSessionsModes))
              => /\ app'.notes_mode = "Viewing"
                 /\ app'.stats.notes = app.stats.notes
                 /\ app'.selected_note_index = app.selected_note_index
                 /\ app'.needs_stats_save = app.needs_stats_save]_vars

\* the loaded note was deleted: the list is empty, nothing is selected and
\* the Statistics are dirty
C21_Witness ==
    /\ app.current_view = "Notes"
    /\ app.notes_mode = "Viewing"
    /\ app.stats.notes = <<>>
    /\ app.selected_note_index = None
    /\ app.needs_stats_save
    /\ disk.stats = Doc(ModesStats)

\* C34: an active input mode always belongs to the displayed view: in every
\* reachable state, notes_mode different from Viewing implies current_view =
\* Notes, and settings_editing implies current_view = Settings with a numeric
\* field selected (never Theme, SoundEnabled or AutoStartNext); neither
\* holds while minimized.
C34_InputModeInView ==
    /\ app.notes_mode # "Viewing" => app.current_view = "Notes"
    /\ app.settings_editing
         => /\ app.current_view = "Settings"
            /\ app.settings_selected_field
                 \notin {"Theme", "SoundEnabled", "AutoStartNext"}
    /\ app.minimized
         => (app.notes_mode = "Viewing" /\ ~app.settings_editing)

\* the extended-break reminder, reached past the three fields that are not
\* edited, is being edited in the Settings view while a note is selected
C34_Witness ==
    /\ pc = "running"
    /\ app.settings_editing
    /\ app.settings_selected_field = "ExtendedBreakReminder"
    /\ app.settings_input = <<>>
    /\ app.current_view = "Settings"
    /\ app.selected_note_index.some

(***************************************************************************)
(* SpecConfigSave: the settings view with writes that may fail             *)
(***************************************************************************)
MaxSessionsConfigSave == 1
MaxFailedWrites == 1
MaxTypedLen == 1

ConfigSaveKeys ==
    {Ch("d"), Key("Down"), Key("Enter"), Key("Backspace"),
     Ch(" "), Key("Right"), Ch("h"), Ch("5")}

\* a theme name that get_theme does not know, loaded from config.json
ConfigSaveThemes == {"default", "mono"}

\* fn counts the Config writes that failed
NoFailedWrites == [op |-> "writes", failed |-> 0]

\* what the user is taken to do: in the Timer view only the settings are
\* opened, only a buffer of at most MaxTypedLen characters is edited (a
\* longer one is committed untouched), and Enter commits the untouched
\* text, an empty buffer or a typed one
ConfigSaveUser(a, key) ==
    /\ KeyRoute(a) = "Normal" => IsChar(key, {"d"})
    /\ (KeyRoute(a) = "SettingsEdit" /\ key.code = "Backspace")
          => Len(a.settings_input) <= MaxTypedLen
    /\ (KeyRoute(a) = "SettingsEdit" /\ key.code = "Char")
          => Len(a.settings_input) < MaxTypedLen
    /\ (KeyRoute(a) = "SettingsEdit" /\ key.code = "Enter")
          => \/ Len(a.settings_input) <= MaxTypedLen
             \/ a.settings_input = settings_start_editing(a).settings_input

InitConfigSave ==
    \E theme \in ConfigSaveThemes, no_sound \in BOOLEAN :
        /\ BootState([NoFiles EXCEPT
                        !.config = Doc([DefaultConfig EXCEPT !.theme = theme])],
                     [NoArgs EXCEPT !.no_sound = no_sound], TRUE)
        /\ fn = NoFailedWrites

ConfigSaveStep(key, ok) ==
    /\ ConfigSaveUser(app, key)
    /\ pc = "running"
    /\ LET r == handle_key_event(World, key, ok)
           failed == \E i \in 1..Len(r.w.io) :
                         r.w.io[i] = <<"write_failed", "config">>
       IN  /\ ~r.quit
           /\ r.w.app.session_count <= MaxSessionsConfigSave
           /\ failed => fn.failed < MaxFailedWrites
           /\ app' = r.w.app
           /\ disk' = r.w.disk
           /\ io' = r.w.io
           /\ pc' = r.w.pc
           /\ today' = r.w.today
           /\ UNCHANGED obs
           /\ fn' = IF failed THEN [fn EXCEPT !.failed = @ + 1] ELSE fn

ConfigSaveKey == \E key \in ConfigSaveKeys, ok \in BOOLEAN : ConfigSaveStep(key, ok)

NextConfigSave == ConfigSaveKey

SpecConfigSave == InitConfigSave /\ [][NextConfigSave]_vars

(***************************************************************************)
(* Claim checked under SpecConfigSave                                      *)
(***************************************************************************)
\* the key is an accepted settings change in state a
C19_Accepted(a, key) ==
    \/ /\ KeyRoute(a) = "SettingsEdit"
       /\ key.code = "Enter"
       /\ C4_InRange(a.settings_selected_field, a.settings_input)
    \/ /\ KeyRoute(a) = "SettingsView"
       /\ IsChar(key, {" "})
       /\ a.settings_selected_field \in {"SoundEnabled", "AutoStartNext"}
    \/ /\ KeyRoute(a) = "SettingsView"
       /\ (key.code \in {"Left", "Right"} \/ IsChar(key, {"h", "l"}))
       /\ a.settings_selected_field = "Theme"

\* the document holds the live configuration of a, field by field
C19_Persisted(doc, a) ==
    /\ IsDoc(doc)
    /\ doc.val.work_duration = MinutesOfDuration(a.work_duration)
    /\ doc.val.rest_duration = MinutesOfDuration(a.rest_duration)
    /\ doc.val.long_break_duration = MinutesOfDuration(a.long_break_duration)
    /\ doc.val.sessions_before_long_break = a.sessions_before_long_break
    /\ doc.val.sound_enabled = a.sound_enabled
    /\ doc.val.theme = a.theme_name
    /\ doc.val.auto_start_next = a.auto_start_next
    /\ doc.val.extended_break_reminder_hours = a.extended_break_reminder_hours

\* C19: every accepted settings change (in-range numeric commit, toggle of
\* the sound or auto-start field, theme cycle) writes the Config document once
\* in the same step, and when the write succeeds the persisted Config equals
\* the live configuration in all eight fields.
C19_SettingsPersist ==
    [][\A key \in ConfigSaveKeys :
         (C19_Accepted(app, key) /\ \E ok \in BOOLEAN : ConfigSaveStep(key, ok))
           => /\ Cardinality(ConfigWrites(io')) = 1
              /\ io' = << <<"write", "config">> >>
                   => C19_Persisted(disk'.config, app')]_vars

\* sound was switched off, 5 sessions were committed, an earlier write has
\* failed, and the theme was just cycled to dracula and written
C19_Witness ==
    /\ app.current_view = "Settings"
    /\ app.settings_selected_field = "Theme"
    /\ app.theme_name = "dracula"
    /\ ~app.sound_enabled
    /\ app.sessions_before_long_break = 5
    /\ fn.failed = 1
    /\ io = << <<"write", "config">> >>
    /\ disk.config = Doc([DefaultConfig EXCEPT
                            !.theme = "dracula", !.sound_enabled = FALSE,
                            !.sessions_before_long_break = 5])

(***************************************************************************)
(* SpecResume: quit, then start again with or without --resume             *)
(***************************************************************************)
MaxSessionsResume == 2
MaxRestarts == 1

\* 1.2 s of work, 0.6 s of rest, 1.2 s of long break after every second
\* session
ResumeConfig ==
    [ShortConfig EXCEPT !.long_break_duration = 200,
                        !.sessions_before_long_break = 2]

\* timer_state.json before the first start: missing, unparsable, or the
\* snapshot of an earlier run
StaleSnapshot ==
    [time_remaining_secs |-> 9, phase |-> "short_break", session_count |-> 1,
     paused |-> FALSE]
ResumeSnapshots == {Absent, Corrupt, Doc(StaleSnapshot)}

ResumeArgs ==
    {[NoArgs EXCEPT !.resume = resume, !.work = work] :
        resume \in BOOLEAN, work \in {NoArg, Arg(210)}}

\* fn holds the arguments of the running process, the number of restarts
\* and time_remaining as it was when the previous process quit
Started(args, starts, left) ==
    [op |-> "start", args |-> args, starts |-> starts, quit_time |-> left]

InitResume ==
    \E snapshot \in ResumeSnapshots, args \in ResumeArgs :
        /\ BootState([NoFiles EXCEPT !.config = Doc(ResumeConfig),
                                     !.timer_state = snapshot], args, TRUE)
        /\ fn = Started(args, 0, 0)

\* the program is started again on the files the last process left
ResumeStart(args) ==
    /\ pc = "exited"
    /\ fn.starts < MaxRestarts
    /\ app' = Startup(disk, args, today)
    /\ disk' = [disk EXCEPT !.config = ConfigDocAfterLoad(@, TRUE)]
    /\ io' = <<>>
    /\ pc' = IF ResetPanics(load_stats(disk.stats, today), today)
             THEN "panicked" ELSE "running"
    /\ today' = today
    /\ obs' = [work_completed |-> 0, commit |-> NoCommit, op |-> ""]
    /\ fn' = Started(args, fn.starts + 1, app.time_remaining)

ResumeRestart == \E args \in ResumeArgs : ResumeStart(args)
ResumeKey == KeyPress(Ch(" "), TRUE, MaxSessionsResume)
\* the reminder is not due in these runs, and the Statistics are written
ResumeTick == Tick(FALSE, MaxSessionsResume)
ResumeQuit == \E ok_timer \in BOOLEAN : Quit(Ch("q"), TRUE, ok_timer)

NextResume == ResumeKey \/ ResumeTick \/ ResumeQuit \/ ResumeRestart

SpecResume == InitResume /\ [][NextResume]_vars

(***************************************************************************)
(* Claim checked under SpecResume                                          *)
(***************************************************************************)
\* a start that follows a quit
C20_RestartStep == pc = "exited" /\ pc' = "running"

\* the new process continues where the one that quit stood
C20_Restored ==
    /\ app'.phase = app.phase
    /\ app'.session_count = app.session_count
    /\ app'.paused = app.paused
    /\ app'.time_remaining = (app.time_remaining \div 1000) * 1000

\* the new process begins a first Work phase of the configured length
C20_Fresh ==
    /\ app'.phase = "Work"
    /\ ~app'.paused
    /\ app'.session_count = 1
    /\ app'.time_remaining =
          6 * (IF fn'.args.work.some THEN fn'.args.work.val
               ELSE disk.config.val.work_duration)

C20_SnapshotWritten ==
    \E i \in 1..Len(io) : io[i] = <<"write", "timer_state">>

MaxSessionsLedger == 2

\* 61 s of work, 0.6 s of rest, 61 s of long break
LedgerConfigs ==
    {[DefaultConfig EXCEPT !.work_duration = 10167, !.rest_duration = 100,
                           !.long_break_duration = 10167,
                           !.sessions_before_long_break = every,
                           !.auto_start_next = auto] :
        every \in {2, 4}, auto \in BOOLEAN}

\* the Statistics of earlier days and of two sessions of today
LedgerStats ==
    [DefaultStatistics(Today) EXCEPT
       !.total_sessions = 28, !.total_work_time = 700,
       !.total_break_time = 140, !.sessions_today = 2,
       !.weekly_sessions = <<1, 2, 3, 4, 5, 6, 7>>]

\* the snapshot of a run that quit in its first Work phase with 6 s left
LedgerSnapshot ==
    [time_remaining_secs |-> 6, phase |-> "work", session_count |-> 1,
     paused |-> FALSE]

InitLedger ==
    \E cfg \in LedgerConfigs :
        Boot([NoFiles EXCEPT !.config = Doc(cfg), !.stats = Doc(LedgerStats),
                             !.timer_state = Doc(LedgerSnapshot)],
             [NoArgs EXCEPT !.resume = TRUE], TRUE)

LedgerSkipStep == KeyPress(Ch("n"), TRUE, MaxSessionsLedger)
LedgerTickStep == \E due \in BOOLEAN : Tick(due, MaxSessionsLedger)
LedgerKey == \E key \in {Ch(" "), Ch("n")} : KeyPress(key, TRUE, MaxSessionsLedger)
LedgerTick == LedgerTickStep

NextLedger == LedgerKey \/ LedgerTick

SpecLedger == InitLedger /\ [][NextLedger]_vars

(***************************************************************************)
(* Claims checked under SpecLedger                                         *)
(***************************************************************************)
\* a tick that called next_phase
LedgerNaturalStep ==
    LedgerTickStep /\ (app'.phase # app.phase \/ app'.stats # app.stats)

LedgerCompletionStep == LedgerSkipStep \/ LedgerNaturalStep

\* whole minutes of a Duration
C24_WholeMinutes(ms) == ms \div 60000

C24_LiveDuration(a) ==
    CASE a.phase = "Work" -> a.work_duration
      [] a.phase = "ShortBreak" -> a.rest_duration
      [] a.phase = "LongBreak" -> a.long_break_duration

\* C24: each phase-completion appends exactly one session record; its
\* completed flag is true for every natural completion, and for a skip it is
\* true iff less than 5 seconds remained; its phase label and its duration
\* (whole minutes) are those of the phase being left.
C24_SessionRecord ==
    [][LedgerCompletionStep
         => LET h == app.stats.session_history
                h2 == app'.stats.session_history
                rec == h2[Len(h2)]
            IN  /\ Len(h2) = Len(h) + 1
                /\ SubSeq(h2, 1, Len(h)) = h
                /\ LedgerNaturalStep => rec.completed
                /\ LedgerSkipStep
                     => (rec.completed <=> app.time_remaining < 5000)
                /\ rec.phase_type =
                     (CASE app.phase = "Work" -> "Work"
                        [] app.phase = "ShortBreak" -> "Short Break"
                        [] app.phase = "LongBreak" -> "Long Break")
                /\ rec.duration = C24_WholeMinutes(C24_LiveDuration(app))]_vars

\* the resumed Work phase ran out and the long break was skipped with more
\* than 5 s left
C24_Witness ==
    LET h == app.stats.session_history
    IN  /\ Len(h) = 2
        /\ h[1] = [timestamp |-> Now, phase_type |-> "Work", duration |-> 1,
                   completed |-> TRUE]
        /\ h[2] = [timestamp |-> Now, phase_type |-> "Long Break",
                   duration |-> 1, completed |-> FALSE]
        /\ app.phase = "Work"
        /\ io = << <<"notify", "Back to Work!">> >>

\* the weekly slots in which w2 is one more than w
C25_SlotsRaised(w, w2) == {i \in 1..Len(w) : w2[i] = w[i] + 1}

\* C25: leaving Work (by completion or skip) increases session_count,
\* total_sessions and sessions_today by exactly 1, increases one weekly slot
\* by 1 (the others keep their counts) and adds the whole minutes of the
\* configured work duration to total_work_time, leaving total_break_time
\* unchanged; leaving a break adds the whole minutes of that break to
\* total_break_time and leaves session_count, total_sessions, sessions_today,
\* weekly_sessions and total_work_time unchanged.
C25_LeavingCounts ==
    [][LedgerCompletionStep
         => LET st == app.stats
                st2 == app'.stats
            IN  /\ app.phase = "Work"
                     => /\ app'.session_count = app.session_count + 1
                        /\ st2.total_sessions = st.total_sessions + 1
                        /\ st2.sessions_today = st.sessions_today + 1
                        /\ Len(st2.weekly_sessions) = Len(st.weekly_sessions)
                        /\ Cardinality(C25_SlotsRaised(st.weekly_sessions,
                                                       st2.weekly_sessions)) = 1
                        /\ \A i \in 1..Len(st.weekly_sessions) :
                              \/ st2.weekly_sessions[i] = st.weekly_sessions[i]
                              \/ i \in C25_SlotsRaised(st.weekly_sessions,
                                                       st2.weekly_sessions)
                        /\ st2.total_work_time = st.total_work_time
                              + C24_WholeMinutes(app.work_duration)
                        /\ st2.total_break_time = st.total_break_time
                /\ app.phase # "Work"
                     => /\ st2.total_break_time = st.total_break_time
                              + C24_WholeMinutes(C24_LiveDuration(app))
                        /\ app'.session_count = app.session_count
                        /\ st2.total_sessions = st.total_sessions
                        /\ st2.sessions_today = st.sessions_today
                        /\ st2.weekly_sessions = st.weekly_sessions
                        /\ st2.total_work_time = st.total_work_time]_vars

\* a Work phase and the long break after it were left: one session more in
\* three counters and in Tuesday's slot, one minute more of work and of break
C25_Witness ==
    /\ app.phase = "Work"
    /\ app.session_count = 2
    /\ app.stats.total_sessions = 29
    /\ app.stats.sessions_today = 3
    /\ app.stats.weekly_sessions = <<1, 3, 3, 4, 5, 6, 7>>
    /\ app.stats.total_work_time = 701
    /\ app.stats.total_break_time = 141
    /\ app.stats.session_history[2].phase_type = "Long Break"

\* C26: right after every phase-completion (natural or skip) the pause flag
\* is the negation of auto_start_next, whatever it was before; with
\* auto-start enabled a skip performed while paused leaves the timer running.
C26_PauseAfterCompletion ==
    [][LedgerCompletionStep
         => /\ app'.paused = ~app.auto_start_next
            /\ app'.auto_start_next = app.auto_start_next]_vars

\* the paused long break was skipped with auto-start enabled: Work runs
C26_Witness ==
    /\ obs.op = "skip_while_paused"
    /\ app.auto_start_next
    /\ ~app.paused
    /\ app.phase = "Work"
    /\ app.session_count = 2
    /\ app.time_remaining = app.work_duration

(***************************************************************************)
(* SpecCount: a fresh start, with the total_sessions it started with        *)
(***************************************************************************)
MaxSessionsCount == 4

CountStatsDocs == {Absent, Doc(LedgerStats)}

\* fn holds stats.total_sessions as main loaded it
StartedWith(a) == [op |-> "start", total_sessions |-> a.stats.total_sessions]

InitCount ==
    \E cfg \in TimerConfigs, st \in CountStatsDocs :
        /\ BootState([NoFiles EXCEPT !.config = Doc(cfg), !.stats = st],
                     NoArgs, TRUE)
        /\ fn = StartedWith(app)

CountKey == \E key \in TimerKeys : KeyPress(key, TRUE, MaxSessionsCount)
CountTick == Tick(FALSE, MaxSessionsCount)
CountQuit ==
    \E key \in QuitKeys, ok_stats \in BOOLEAN : Quit(key, ok_stats, TRUE)

NextCount == CountKey \/ CountTick \/ CountQuit

SpecCount == InitCount /\ [][NextCount]_vars

\* C37: in a run started fresh (session_count = 1), session_count always
\* equals 1 plus the number of Work phases left so far (by completion or
\* skip), and total_sessions minus its value at startup always equals
\* session_count - 1.
C37_SessionCount ==
    /\ app.session_count = 1 + obs.work_completed
    /\ app.stats.total_sessions - fn.total_sessions = app.session_count - 1

\* the third Work phase of a run that started with 28 sessions on record,
\* entered after a long break and a short break
C37_Witness ==
    /\ pc = "running"
    /\ app.phase = "Work"
    /\ app.session_count = 3
    /\ fn.total_sessions = LedgerStats.total_sessions
    /\ app.stats.total_sessions = LedgerStats.total_sessions + 2
    /\ app.stats.session_history[Len(app.stats.session_history)].phase_type
         = "Short Break"

(***************************************************************************)
(* SpecProgress: the loop under a fair tick, with quit and a resumed start  *)
(***************************************************************************)
MaxSessionsProgress == 3

\* 1.2 s of work, 0.6 s of rest, with and without auto-start
ProgressConfigs ==
    {[ResumeConfig EXCEPT !.auto_start_next = auto] : auto \in BOOLEAN}
ProgressArgs == [NoArgs EXCEPT !.resume = TRUE]
ProgressKeys == {Ch(" "), Ch("r"), Ch("n")}

InitProgress ==
    \E cfg \in ProgressConfigs :
        /\ BootState([NoFiles EXCEPT !.config = Doc(cfg)], ProgressArgs, TRUE)
        /\ fn = Started(ProgressArgs, 0, 0)

ProgressKey ==
    \E key \in ProgressKeys : KeyPress(key, TRUE, MaxSessionsProgress)
\* run_app calls update_timer whenever the tick interval has passed
\* (main.rs 809-812)
ProgressTick == Tick(FALSE, MaxSessionsProgress)
ProgressQuit == Quit(Ch("q"), TRUE, TRUE)
ProgressRestart == ResumeStart(ProgressArgs)

NextProgress ==
    ProgressKey \/ ProgressTick \/ ProgressQuit \/ ProgressRestart

\* the tick is weakly fair: the loop polls for at most the rest of the tick
\* interval and then calls update_timer
SpecProgress ==
    InitProgress /\ [][NextProgress]_vars /\ WF_vars(ProgressTick)

\* the last step completed a phase: next_phase has announced the phase entered
C38_PhaseBegun ==
    \E i \in 1..Len(io) :
        io[i] \in {<<"notify", "Break Time!">>, <<"notify", "Long Break Time!">>,
                   <<"notify", "Back to Work!">>}
C38_WorkBegun ==
    \E i \in 1..Len(io) : io[i] = <<"notify", "Back to Work!">>

\* the Work phase that the bound on session_count keeps from ending
C38_LastWork ==
    app.phase = "Work" /\ app.session_count >= MaxSessionsProgress

\* the user has paused, reset or quit
C38_UserStopped ==
    pc # "running" \/ app.paused \/ obs.op = "reset_timer"

\* C38: progress: under weak fairness of the tick, whenever the timer is
\* unpaused and the user neither pauses nor resets it, the current phase
\* eventually completes and the next phase begins; with auto_start_next
\* enabled, Work is entered again and again. This holds from every reachable
\* state, including a resumed start.
C38_Progress ==
    /\ (pc = "running" /\ ~app.paused /\ ~C38_LastWork)
          ~> (C38_PhaseBegun \/ C38_UserStopped)
    /\ (pc = "running" /\ ~app.paused /\ app.auto_start_next
           /\ ~C38_LastWork)
          ~> (C38_WorkBegun \/ C38_LastWork \/ C38_UserStopped)

====
